---- MODULE Spec2Model ----
(***************************************************************************)
(* Encephalitis content classifier: the processing queue of the App       *)
(* component (handleStart / processQueue), the content fetcher            *)
(* (scrapeContent) and the two classification clients                     *)
(* (classifyPageContent, classifyWithBedrock).                            *)
(*                                                                         *)
(* JavaScript runs one task at a time: every action below is one          *)
(* synchronous stretch of code between two awaits, or the settling of the *)
(* promise the code is awaiting.  Strings that the code inspects          *)
(* character by character are tuples of one-character strings.            *)
(***************************************************************************)
EXTENDS Integers, Sequences, FiniteSets, TLC

VARIABLES
    sitemapInput,   \* App state `sitemapInput`, as a sequence of tokens
    provider,       \* App state `provider`: "gemini" | "bedrock"
    awsConfig,      \* App state `awsConfig`
    results,        \* App state `results`: sequence of ClassifiedPage
    queue,          \* App state `queue`: sequence of ProcessingStatus
    appState,       \* App state `appState`: "IDLE" | "PROCESSING" | "COMPLETED"
    progress,       \* App state `progress`, as the fraction [num, den] of 100
    notice,         \* what handleStart last surfaced (alert / credentials modal)
    isRunning,      \* the ref isRunning.current
    pc,             \* where the asynchronous handleStart/processQueue call stands
    idx,            \* processQueue: loop variable i (1-based here)
    currentItems,   \* processQueue: the copy of the initial queue
    sessionProcessedCount, \* processQueue: items processed in this run
    strat,          \* scrapeContent: position in the strategies list (1-based)
    timerArmed,     \* scrapeContent: the attempt's setTimeout is pending
    htmlContent,    \* scrapeContent: accepted content (its length) or NoContent
    errorDetails,   \* scrapeContent: failure reasons pushed so far
    attempt,        \* classifyPageContent: retries done
    delay,          \* classifyPageContent: next backoff wait, ms
    error,          \* classifyPageContent: what its catch has received
    net,            \* failure modes the proxies show in this session
    runs,           \* runs started so far (bounded by MaxRuns)
    attempted,      \* history: strategies attempted by the current fetch call
    fetchLog,       \* history: urls passed to scrapeContent in this run
    classifyLog,    \* history: urls passed to a classification client in this run
    requestLog,     \* history: backend requests issued by the current classify call
    cancelled,      \* history: the keep-running flag was cleared during this run
    resultsAtStart, \* history: `results` when this run was started
    lastContent,    \* history: what the handler of the current attempt returned
    cachedCreds,    \* bedrock.ts: the module variable `cachedCreds`
    now,            \* Date.now(), ms since the session began
    credentials,    \* classifyWithBedrock: its local `credentials`
    rpc,            \* where a credential resolution stands
    strategy,       \* exchangeHackathonKey: position in its strategies list (1-based)
    thrown,         \* what the credential resolution threw
    exchangeLog,    \* history: requests sent to the exchange endpoint by this call
    ticks,          \* history: times the clock was advanced (bounded by MaxTicks)
    elapsed,        \* processQueue: `elapsed` when last computed (line 284), in ms
    eta,            \* App state `eta`
    paced,          \* history: ms of the pacing delay (line 297) that have
                    \* passed since the last item was processed; 0: none
    file,           \* the content of the file that downloadJson last wrote
    bodyText,       \* scrapeContent: `bodyText` (crawler.ts line 131)
    scrapedText     \* processQueue: `text`, what scrapeContent returned (line 244)

appVars    == <<sitemapInput, provider, awsConfig, results, queue, appState,
               progress, notice>>
loopVars   == <<isRunning, pc, idx, currentItems, sessionProcessedCount>>
fetchVars  == <<strat, timerArmed, htmlContent, errorDetails>>
geminiVars == <<attempt, delay, error>>
histVars   == <<attempted, fetchLog, classifyLog, requestLog, cancelled,
               resultsAtStart, lastContent>>
resolveVars == <<cachedCreds, now, credentials, rpc, strategy, thrown,
                 exchangeLog, ticks>>
etaVars == <<elapsed, eta, paced>>
textVars == <<bodyText, scrapedText>>
vars == <<appVars, loopVars, fetchVars, geminiVars, net, runs, histVars,
          resolveVars, etaVars, file, textVars>>

(***************************************************************************)
(* Bounds of the model.                                                    *)
(***************************************************************************)
MaxUrls == 2        \* longest sitemap handed to handleStart
MaxRuns == 2        \* runs started in one session

Urls == {"u1", "u2"}

(***************************************************************************)
(* Program constants.                                                      *)
(***************************************************************************)
MinContentLen == 50
MAX_RETRIES == 5
InitialDelay == 5000

(***************************************************************************)
(* Strings as tuples of characters.                                        *)
(***************************************************************************)
\* the white space String.prototype.trim removes, among Latin-1 characters
IsSpace(c) == c \in {" ", "\t", "\n", "x0B", "\f", "\r", "xA0"}

RECURSIVE TrimLeft(_)
TrimLeft(s) == IF s # <<>> /\ IsSpace(Head(s)) THEN TrimLeft(Tail(s)) ELSE s

RECURSIVE TrimRight(_)
TrimRight(s) ==
    IF s # <<>> /\ IsSpace(s[Len(s)]) THEN TrimRight(SubSeq(s, 1, Len(s) - 1)) ELSE s

Trim(s) == TrimRight(TrimLeft(s))

StartsWith(s, p) == Len(s) >= Len(p) /\ SubSeq(s, 1, Len(p)) = p

\* the value undefined where a string may stand
Undefined == <<"undefined">>

\* JavaScript truthiness of a string or undefined: "" and undefined are falsy
Truthy(s) == s # <<>> /\ s # Undefined

RECURSIVE Split(_, _)
Split(s, sep) ==
    LET S == {k \in 1..Len(s) : s[k] = sep}
    IN  IF S = {} THEN <<s>>
        ELSE LET k == CHOOSE x \in S : \A y \in S : x <= y
             IN  <<SubSeq(s, 1, k - 1)>> \o Split(SubSeq(s, k + 1, Len(s)), sep)

RECURSIVE Join(_, _)
Join(parts, sep) ==
    IF Len(parts) = 0 THEN <<>>
    ELSE IF Len(parts) = 1 THEN parts[1]
    ELSE parts[1] \o <<sep>> \o Join(Tail(parts), sep)

Includes(s, c) == \E k \in 1..Len(s) : s[k] = c


(***************************************************************************)
(* Data model.                                                             *)
(***************************************************************************)
NoUrl == "none"

\* ClassifiedPage: the url and the fields the backend's JSON object brought
Page(u, t) == [url |-> u, title |-> t]

NoData == Page(NoUrl, "none")
NoError == [kind |-> "none", details |-> <<>>]

\* ProcessingStatus
Item(u, st, d, e) == [url |-> u, status |-> st, data |-> d, error |-> e]

\* what the catch of classifyPageContent (line 91) can receive: the error's
\* name, status and code, and whether its message contains "429",
\* "RESOURCE_EXHAUSTED" or "quota"
GeminiError(kind, status, code, mentions) ==
    [kind |-> kind, status |-> status, code |-> code, mentions |-> mentions]

\* no error is in the catch's scope
NoGeminiError == GeminiError("none", 0, 0, FALSE)

\* the retrieval strategies of scrapeContent, in list order
Strategies == <<"AllOrigins", "CodeTabs", "ThingProxy", "CorsProxy">>

NoContent == -1

\* no handler has returned in the current attempt
NotDelivered == -2

\* content lengths a proxy may deliver; NoContent stands for a missing
\* `contents` field (undefined)
ContentLens == {NoContent, 0, MinContentLen, MinContentLen + 1}

\* ways one strategy attempt can fail
FailKinds == {"http", "timeout", "short", "exception"}

\* the proxies show one failure mode in one session
NetProfiles == {{k} : k \in FailKinds}

(***************************************************************************)
(* AwsConfig values.                                                       *)
(***************************************************************************)
KeyPrefix == <<"b", "e", "d", "r", "o", "c", "k", "-", "a", "p", "i", "-", "k", "e", "y", "-">>
ExampleAccessKey == <<"A", "K", "I", "A", "E", "X", "A", "M", "P", "L", "E", "1", "2", "3", "4", "5", "6", "7">>
ExampleSecret == <<"s", "u", "p", "e", "r", "s", "e", "c", "r", "e", "t", "k", "e", "y", "1", "2", "3", "4">>
ExchangeKey == KeyPrefix \o <<"a", "H", "R", "0", "c", "A", "=", "=">>
LiteralKey == ExampleAccessKey \o <<":">> \o ExampleSecret
BadKey == <<"n", "o", "-", "k", "e", "y">>
Blank == <<" ">>

Config(auth, ak, sk, api) ==
    [authType |-> auth, accessKeyId |-> ak, secretAccessKey |-> sk,
     sessionToken |-> <<>>, apiKey |-> api]

\* the initial useState value of awsConfig
DefaultConfig == Config("standard", <<>>, <<>>, <<>>)

Configs ==
    { DefaultConfig,
      Config("standard", ExampleAccessKey, ExampleSecret, <<>>),
      Config("standard", Blank, Blank, <<>>),
      Config("apikey", <<>>, <<>>, <<>>),
      Config("apikey", <<>>, <<>>, ExchangeKey),
      Config("apikey", <<>>, <<>>, LiteralKey),
      Config("apikey", <<>>, <<>>, BadKey) }


(***************************************************************************)
(* atob: forgiving base64 decoding to a string of Latin-1 characters.      *)
(* A character outside printable ASCII, and the grave accent, is written   *)
(* "xNN" (its code).                                                       *)
(***************************************************************************)
B64Alphabet ==
    <<
       "A", "B", "C", "D", "E", "F", "G", "H", "I", "J", "K", "L", "M", "N", "O", "P",
       "Q", "R", "S", "T", "U", "V", "W", "X", "Y", "Z", "a", "b", "c", "d", "e", "f",
       "g", "h", "i", "j", "k", "l", "m", "n", "o", "p", "q", "r", "s", "t", "u", "v",
       "w", "x", "y", "z", "0", "1", "2", "3", "4", "5", "6", "7", "8", "9", "+", "/" >>

Latin1 ==
    <<
       "x00", "x01", "x02", "x03", "x04", "x05", "x06", "x07", "x08", "\t", "\n", "x0B", "\f", "\r", "x0E", "x0F",
       "x10", "x11", "x12", "x13", "x14", "x15", "x16", "x17", "x18", "x19", "x1A", "x1B", "x1C", "x1D", "x1E", "x1F",
       " ", "!", "\"", "#", "$", "%", "&", "'", "(", ")", "*", "+", ",", "-", ".", "/",
       "0", "1", "2", "3", "4", "5", "6", "7", "8", "9", ":", ";", "<", "=", ">", "?",
       "@", "A", "B", "C", "D", "E", "F", "G", "H", "I", "J", "K", "L", "M", "N", "O",
       "P", "Q", "R", "S", "T", "U", "V", "W", "X", "Y", "Z", "[", "\\", "]", "^", "_",
       "x60", "a", "b", "c", "d", "e", "f", "g", "h", "i", "j", "k", "l", "m", "n", "o",
       "p", "q", "r", "s", "t", "u", "v", "w", "x", "y", "z", "{", "|", "}", "~", "x7F",
       "x80", "x81", "x82", "x83", "x84", "x85", "x86", "x87", "x88", "x89", "x8A", "x8B", "x8C", "x8D", "x8E", "x8F",
       "x90", "x91", "x92", "x93", "x94", "x95", "x96", "x97", "x98", "x99", "x9A", "x9B", "x9C", "x9D", "x9E", "x9F",
       "xA0", "xA1", "xA2", "xA3", "xA4", "xA5", "xA6", "xA7", "xA8", "xA9", "xAA", "xAB", "xAC", "xAD", "xAE", "xAF",
       "xB0", "xB1", "xB2", "xB3", "xB4", "xB5", "xB6", "xB7", "xB8", "xB9", "xBA", "xBB", "xBC", "xBD", "xBE", "xBF",
       "xC0", "xC1", "xC2", "xC3", "xC4", "xC5", "xC6", "xC7", "xC8", "xC9", "xCA", "xCB", "xCC", "xCD", "xCE", "xCF",
       "xD0", "xD1", "xD2", "xD3", "xD4", "xD5", "xD6", "xD7", "xD8", "xD9", "xDA", "xDB", "xDC", "xDD", "xDE", "xDF",
       "xE0", "xE1", "xE2", "xE3", "xE4", "xE5", "xE6", "xE7", "xE8", "xE9", "xEA", "xEB", "xEC", "xED", "xEE", "xEF",
       "xF0", "xF1", "xF2", "xF3", "xF4", "xF5", "xF6", "xF7", "xF8", "xF9", "xFA", "xFB", "xFC", "xFD", "xFE", "xFF" >>

B64Value(c) == (CHOOSE k \in 1..Len(B64Alphabet) : B64Alphabet[k] = c) - 1

\* trailing padding is dropped only when the length is a multiple of four
StripPadding(s) ==
    IF Len(s) % 4 = 0 /\ Len(s) >= 1 /\ s[Len(s)] = "="
    THEN IF Len(s) >= 2 /\ s[Len(s) - 1] = "="
         THEN SubSeq(s, 1, Len(s) - 2)
         ELSE SubSeq(s, 1, Len(s) - 1)
    ELSE s

\* atob throws InvalidCharacterError
AtobThrows(s) ==
    LET d == StripPadding(s)
    IN  \/ Len(d) % 4 = 1
        \/ \E k \in 1..Len(d) : \A j \in 1..Len(B64Alphabet) : B64Alphabet[j] # d[k]

RECURSIVE DecodeB64(_)
DecodeB64(d) ==
    IF Len(d) = 0 THEN <<>>
    ELSE IF Len(d) >= 4
    THEN LET n == B64Value(d[1]) * 262144 + B64Value(d[2]) * 4096
                  + B64Value(d[3]) * 64 + B64Value(d[4])
         IN  <<n \div 65536, (n \div 256) % 256, n % 256>>
                 \o DecodeB64(SubSeq(d, 5, Len(d)))
    ELSE IF Len(d) = 3
    THEN LET n == (B64Value(d[1]) * 4096 + B64Value(d[2]) * 64 + B64Value(d[3])) \div 4
         IN  <<n \div 256, n % 256>>
    ELSE LET n == (B64Value(d[1]) * 64 + B64Value(d[2])) \div 16
         IN  <<n>>

Atob(s) ==
    LET bytes == DecodeB64(StripPadding(s))
    IN  [k \in 1..Len(bytes) |-> Latin1[bytes[k] + 1]]

\* btoa: the text whose atob is s (what a user pastes as the encoded form)
RECURSIVE Btoa(_)
Btoa(s) ==
    LET c == [k \in 1..Len(s) |->
                (CHOOSE j \in 1..Len(Latin1) : Latin1[j] = s[k]) - 1]
    IN
    IF Len(s) = 0 THEN <<>>
    ELSE IF Len(s) >= 3
    THEN LET n == c[1] * 65536 + c[2] * 256 + c[3]
         IN  <<B64Alphabet[(n \div 262144) + 1], B64Alphabet[((n \div 4096) % 64) + 1],
               B64Alphabet[((n \div 64) % 64) + 1], B64Alphabet[(n % 64) + 1]>>
                 \o Btoa(SubSeq(s, 4, Len(s)))
    ELSE IF Len(s) = 2
    THEN LET n == (c[1] * 256 + c[2]) * 4
         IN  <<B64Alphabet[(n \div 4096) + 1], B64Alphabet[((n \div 64) % 64) + 1],
               B64Alphabet[(n % 64) + 1], "=">>
    ELSE LET n == c[1] * 16
         IN  <<B64Alphabet[(n \div 64) + 1], B64Alphabet[(n % 64) + 1], "=", "=">>

\* /^[a-zA-Z0-9+/=]+$/.test(s)
IsBase64Text(s) ==
    /\ Len(s) >= 1
    /\ \A k \in 1..Len(s) :
          s[k] = "=" \/ \E j \in 1..Len(B64Alphabet) : B64Alphabet[j] = s[k]

(***************************************************************************)
(* JSON.parse on the object texts a credential field can hold: a flat      *)
(* object of string members, {"k":"v",...}, written without white space    *)
(* or escapes.  The result is the sequence of its <<key, value>> members;  *)
(* JsonFail stands for the SyntaxError.                                    *)
(***************************************************************************)
JsonFail == <<<<"!">>>>

FindQuote(s, from) ==
    LET S == {k \in from..Len(s) : s[k] = "\""}
    IN  IF S = {} THEN 0 ELSE CHOOSE k \in S : \A j \in S : k <= j

RECURSIVE JsonMembers(_, _, _)
JsonMembers(s, p, acc) ==
    IF p > Len(s) \/ s[p] # "\"" THEN JsonFail
    ELSE LET q == FindQuote(s, p + 1)
         IN  IF q = 0 \/ q + 2 > Len(s) \/ s[q + 1] # ":" \/ s[q + 2] # "\""
             THEN JsonFail
             ELSE LET r == FindQuote(s, q + 3)
                      m == <<SubSeq(s, p + 1, q - 1), SubSeq(s, q + 3, r - 1)>>
                  IN  IF r = 0 \/ r + 1 > Len(s) THEN JsonFail
                      ELSE IF s[r + 1] = "}"
                      THEN IF r + 1 = Len(s) THEN Append(acc, m) ELSE JsonFail
                      ELSE IF s[r + 1] = ","
                      THEN JsonMembers(s, r + 2, Append(acc, m))
                      ELSE JsonFail

JsonParseObject(s) ==
    IF s = <<"{", "}">> THEN <<>>
    ELSE IF Len(s) >= 2 /\ s[1] = "{" THEN JsonMembers(s, 2, <<>>)
    ELSE JsonFail

\* obj.key: the value of the last member named key, or undefined
JsonField(obj, key) ==
    LET S == {k \in 1..Len(obj) : obj[k][1] = key}
    IN  IF S = {} THEN Undefined ELSE obj[CHOOSE k \in S : \A j \in S : j <= k][2]


(***************************************************************************)
(* services/bedrock.ts: credential resolution.                             *)
(***************************************************************************)
sanitize(val) == IF ~Truthy(val) THEN <<>> ELSE Trim(val)

Creds(ak, sk, tok) == [accessKeyId |-> ak, secretAccessKey |-> sk, sessionToken |-> tok]

\* the null that parseStandardCredentials returns
NoCreds == Creds(Undefined, Undefined, Undefined)

MinAccessKeyLen == 16
MinSecretLen == 10

ColonCredsTokenIsThirdPart(decoded) ==
    LET parts == Split(decoded, ":")
        accessKeyId == Trim(parts[1])
        secretAccessKey == Trim(parts[2])
        sessionToken == IF Len(parts) > 2 THEN Trim(parts[3]) ELSE Undefined
    IN  IF Len(accessKeyId) >= MinAccessKeyLen /\ Len(secretAccessKey) > MinSecretLen
        THEN Creds(accessKeyId, secretAccessKey, sessionToken)
        ELSE NoCreds

\* lines 156-165
ColonCreds(decoded) ==
    LET parts == Split(decoded, ":")
        accessKeyId == Trim(parts[1])
        secretAccessKey == Trim(parts[2])
        sessionToken == IF Len(parts) > 2
                        THEN Trim(Join(SubSeq(parts, 3, Len(parts)), ":"))
                        ELSE Undefined
    IN  IF Len(accessKeyId) >= MinAccessKeyLen /\ Len(secretAccessKey) > MinSecretLen
        THEN Creds(accessKeyId, secretAccessKey, sessionToken)
        ELSE NoCreds

AccessKeyIdName == <<"a", "c", "c", "e", "s", "s", "K", "e", "y", "I", "d">>
SecretAccessKeyName == <<"s", "e", "c", "r", "e", "t", "A", "c", "c", "e", "s", "s", "K", "e", "y">>
SessionTokenName == <<"s", "e", "s", "s", "i", "o", "n", "T", "o", "k", "e", "n">>

parseStandardCredentialsAnyLength(apiKey) ==
    LET parts == Split(sanitize(apiKey), ":")
    IN  IF Len(parts) >= 2
        THEN Creds(Trim(parts[1]), Trim(parts[2]), Undefined)
        ELSE NoCreds

parseStandardCredentials(apiKey) ==
    LET clean == sanitize(apiKey)
        json == IF StartsWith(clean, <<"{">>) THEN JsonParseObject(clean) ELSE JsonFail
        decoded == IF IsBase64Text(clean) /\ ~Includes(clean, " ") /\ ~AtobThrows(clean)
                      /\ Includes(Atob(clean), ":")
                   THEN Atob(clean)
                   ELSE clean
    IN  IF ~Truthy(clean) THEN NoCreds
        ELSE IF /\ json # JsonFail
                /\ Truthy(JsonField(json, AccessKeyIdName))
                /\ Truthy(JsonField(json, SecretAccessKeyName))
        THEN Creds(JsonField(json, AccessKeyIdName),
                   JsonField(json, SecretAccessKeyName),
                   JsonField(json, SessionTokenName))
        ELSE IF Includes(decoded, ":") THEN ColonCreds(decoded)
        ELSE NoCreds

(***************************************************************************)
(* The configurations a credential resolution is given.                    *)
(***************************************************************************)
\* the shortest access key and the shortest secret that line 162 accepts
Key16 == SubSeq(ExampleAccessKey, 1, MinAccessKeyLen)
Secret11 == SubSeq(ExampleSecret, 1, MinSecretLen + 1)
Token == <<"t", "o", "k">>
ColonToken == <<"t", ":", "u">>

JsonMember(name, value) ==
    <<"\"">> \o name \o <<"\"", ":", "\"">> \o value \o <<"\"">>

\* {"name":"value",...}
JsonObject(members) ==
    <<"{">> \o Join([k \in 1..Len(members) |->
                        JsonMember(members[k][1], members[k][2])], ",")
           \o <<"}">>

\* 'K:S' and 'K:S:T'
RawLiteral(k, s) == k \o <<":">> \o s
RawLiteralWithToken(k, s, t) == k \o <<":">> \o s \o <<":">> \o t

\* literal credential strings: colon-delimited, the base64 of such, JSON
Literals ==
    {RawLiteral(k, s) :
        k \in {ExampleAccessKey, Key16, SubSeq(Key16, 1, MinAccessKeyLen - 1),
               Blank \o SubSeq(Key16, 1, MinAccessKeyLen - 1), Key16 \o Blank},
        s \in {ExampleSecret, Secret11, SubSeq(Secret11, 1, MinSecretLen), Blank \o Secret11}}
        \cup {RawLiteralWithToken(k, s, t) :
                k \in {Key16, SubSeq(Key16, 1, MinAccessKeyLen - 1), Key16 \o Blank},
                s \in {Secret11, SubSeq(Secret11, 1, MinSecretLen)},
                t \in {<<>>, Token, ColonToken}}
    \cup
    {Btoa(RawLiteral(k, s)) :
        k \in {Key16, SubSeq(Key16, 1, MinAccessKeyLen - 1)},
        s \in {Secret11, SubSeq(Secret11, 1, MinSecretLen)}}
        \cup {Btoa(RawLiteralWithToken(Key16, Secret11, ColonToken)),
              Btoa(ExampleAccessKey)}
    \cup
    {JsonObject(<<<<AccessKeyIdName, k>>, <<SecretAccessKeyName, s>>>>) :
        k \in {Key16, <<"a">>, <<>>}, s \in {Secret11, <<"b">>}}
        \cup {JsonObject(<<<<AccessKeyIdName, Key16>>, <<SecretAccessKeyName, Secret11>>,
                           <<SessionTokenName, Token>>>>),
              JsonObject(<<<<SessionTokenName \o <<"I", "d">>, Token>>,
                           <<AccessKeyIdName, <<"a">>>>, <<SecretAccessKeyName, <<"b">>>>>>),
              JsonObject(<<<<AccessKeyIdName, Key16>>>>)}

\* keys of the exchange form: the prefix and the base64 of the endpoint's
\* url; "!" is no base64
ExchangeKeys ==
    {ExchangeKey, KeyPrefix \o Btoa(<<"h", "t", "t", "p", "a">>),
     KeyPrefix \o Btoa(<<"b">>), KeyPrefix \o <<"!">>}

ResolveConfigs ==
    {[Config(auth, ak, sk, <<>>) EXCEPT !.sessionToken = tok] :
        auth \in {"standard", "apikey"},
        ak \in {<<>>, Blank, ExampleAccessKey, Blank \o Key16},
        sk \in {<<>>, Blank, ExampleSecret},
        tok \in {<<>>, Blank, Token}}
    \cup {Config("apikey", <<>>, <<>>, api) :
            api \in Literals \cup ExchangeKeys
                       \cup {BadKey, Blank, KeyPrefix \o RawLiteral(Key16, Secret11)}}

\* classifyWithBedrock, lines 265-288: which way the credentials are resolved
\*   "exchange" : exchangeHackathonKey is awaited
\*   "invalid"  : throws "Invalid API Key format ..."
\*   "missing"  : throws "Missing AWS Credentials in Standard configuration."
\*   "ready"    : credentials in hand, go on to invokeBedrockWithIam
ResolveStep(config) ==
    IF config.authType = "apikey" /\ Truthy(config.apiKey)
    THEN IF StartsWith(sanitize(config.apiKey), KeyPrefix) THEN "exchange"
         ELSE IF parseStandardCredentials(sanitize(config.apiKey)) = NoCreds THEN "invalid"
         ELSE "ready"
    ELSE IF ~Truthy(config.accessKeyId) \/ ~Truthy(config.secretAccessKey) THEN "missing"
    ELSE "ready"

\* the configuration is read-only in classifyWithBedrock: what lines 265-288
\* do with each configuration of a session
ResolveSteps == [config \in Configs \cup ResolveConfigs |-> ResolveStep(config)]

\* lines 265-288: the credentials of a configuration that needs no exchange
ResolvedCredentials(config) ==
    IF config.authType = "apikey" /\ Truthy(config.apiKey)
    THEN parseStandardCredentials(sanitize(config.apiKey))
    ELSE Creds(sanitize(config.accessKeyId), sanitize(config.secretAccessKey),
               IF Truthy(sanitize(config.sessionToken))
               THEN sanitize(config.sessionToken) ELSE Undefined)



(***************************************************************************)
(* The sitemap text handed to handleStart, as a sequence of tokens: " "    *)
(* and "\n" are white space, "text" is text that is no markup, XmlDecl is  *)
(* the XML declaration, "<name>" and "</name>" are the tags of an element, *)
(* "&amp;" is an entity reference, any other token is character data.      *)
(***************************************************************************)
XmlDecl == "<?xml?>"
StartTag(name) == "<" \o name \o ">"
EndTag(name) == "</" \o name \o ">"
TagNames == {"urlset", "url", "loc", "sm:loc"}

\* the string that the tokens make
RECURSIVE Concat(_)
Concat(toks) == IF toks = <<>> THEN "" ELSE Head(toks) \o Concat(Tail(toks))

\* a sitemap with one <url><loc>u</loc></url> per url
RECURSIVE UrlElements(_)
UrlElements(urls) ==
    IF urls = <<>> THEN <<>>
    ELSE <<StartTag("url"), StartTag("loc"), Head(urls), EndTag("loc"), EndTag("url")>>
         \o UrlElements(Tail(urls))

Sitemap(urls) ==
    <<XmlDecl, "\n", StartTag("urlset")>> \o UrlElements(urls) \o <<EndTag("urlset")>>

SitemapTexts ==
    {<<>>, <<" ">>, <<"text">>, <<StartTag("urlset"), StartTag("loc"), EndTag("loc"), EndTag("urlset")>>}
    \cup UNION {{Sitemap(urls) : urls \in [1..n -> Urls]} : n \in 1..MaxUrls}

\* sitemapInput.trim() is empty
IsBlankText(text) == \A k \in 1..Len(text) : IsSpace(text[k])

\* DOMParser.parseFromString(cleanContent, "text/xml") after an XML
\* declaration at the start: the <loc> elements of the document in document
\* order, each with its textContent (as tokens, references replaced). A
\* text that is no well-formed document gives a parsererror document, which
\* has no <loc> element (ok is FALSE).
RECURSIVE parseFromString(_, _, _, _)
parseFromString(toks, stack, locs, rooted) ==
    LET t == Head(toks)
        failed == [ok |-> FALSE, locs |-> <<>>]
        opened == Append(locs, [text |-> <<>>, open |-> TRUE])
        last == CHOOSE k \in 1..Len(locs) :
                    locs[k].open /\ \A j \in (k + 1)..Len(locs) : ~locs[j].open
        closed == [locs EXCEPT ![last].open = FALSE]
        char == IF t = "&amp;" THEN "&" ELSE t
        inText == [k \in 1..Len(locs) |->
                      IF locs[k].open THEN [locs[k] EXCEPT !.text = @ \o <<char>>]
                      ELSE locs[k]]
    IN  IF toks = <<>>
        THEN IF stack = <<>> /\ rooted THEN [ok |-> TRUE, locs |-> locs] ELSE failed
        ELSE IF \E n \in TagNames : t = StartTag(n)
        THEN IF stack = <<>> /\ rooted THEN failed
             ELSE parseFromString(Tail(toks), <<t>> \o stack,
                                  IF t = StartTag("loc") THEN opened ELSE locs, TRUE)
        ELSE IF \E n \in TagNames : t = EndTag(n)
        THEN IF stack # <<>> /\ \E n \in TagNames : t = EndTag(n) /\ Head(stack) = StartTag(n)
             THEN parseFromString(Tail(toks), Tail(stack),
                                  IF t = EndTag("loc") THEN closed ELSE locs, rooted)
             ELSE failed
        ELSE IF t = XmlDecl THEN failed
        ELSE IF stack = <<>>
        THEN IF IsSpace(t) THEN parseFromString(Tail(toks), stack, locs, rooted)
             ELSE failed
        ELSE parseFromString(Tail(toks), stack, inText, rooted)

\* lines 9-10: the text from "<?xml" on, when that occurs
cleanContent(xmlContent) ==
    LET found == {k \in 1..Len(xmlContent) : xmlContent[k] = XmlDecl}
        startIndex == CHOOSE k \in found : \A j \in found : k <= j
    IN  IF found # {} THEN SubSeq(xmlContent, startIndex, Len(xmlContent)) ELSE xmlContent

\* lines 12, 16
xmlDoc(content) ==
    parseFromString(IF content # <<>> /\ Head(content) = XmlDecl THEN Tail(content)
                    ELSE content,
                    <<>>, <<>>, FALSE)

\* `.` matches no line terminator
regexStopsAt(toks) == \E k \in 1..Len(toks) : toks[k] = "\n"

\* lines 30-36: the matches of /<loc>(.*?)<\/loc>/g in the raw text
RECURSIVE regexMatches(_)
regexMatches(toks) ==
    LET ends == {k \in 2..Len(toks) : toks[k] = EndTag("loc")}
        end == CHOOSE k \in ends : \A j \in ends : k <= j
        inner == SubSeq(toks, 2, end - 1)
    IN  IF toks = <<>> THEN <<>>
        ELSE IF Head(toks) = StartTag("loc") /\ ends # {} /\ ~regexStopsAt(inner)
        THEN (IF inner # <<>> THEN <<Concat(Trim(inner))>> ELSE <<>>)
             \o regexMatches(SubSeq(toks, end + 1, Len(toks)))
        ELSE regexMatches(Tail(toks))

hasTextAlways(loc) == TRUE

\* line 20: `if (loc)`
hasText(loc) == loc.text # <<>>

\* lines 5-39
parseSitemap(xmlContent) ==
    LET locs == xmlDoc(cleanContent(xmlContent)).locs
        kept == SelectSeq(locs, hasText)
    IN  IF Len(locs) > 0
        THEN [k \in 1..Len(kept) |-> Concat(Trim(kept[k].text))]
        ELSE regexMatches(xmlContent)

(***************************************************************************)
(* handleStart.                                                            *)
(***************************************************************************)
hasStandard == Truthy(awsConfig.accessKeyId) /\ Truthy(awsConfig.secretAccessKey)
hasApi == Truthy(awsConfig.apiKey)

\* lines 157-164: the guard that opens the credentials modal instead of starting
NeedsAwsModal ==
    /\ provider = "bedrock"
    /\ \/ awsConfig.authType = "standard" /\ ~hasStandard
       \/ awsConfig.authType = "apikey" /\ ~hasApi

\* resultsMap.get(url): the Map keeps the last entry of a key
HasResult(res, u) == \E k \in 1..Len(res) : res[k].url = u
ResultFor(res, u) ==
    LET S == {k \in 1..Len(res) : res[k].url = u}
    IN  res[CHOOSE k \in S : \A j \in S : j <= k]

\* lines 184-190
InitialItem(res, u) ==
    IF HasResult(res, u)
    THEN Item(u, "completed", ResultFor(res, u), NoError)
    ELSE Item(u, "pending", NoData, NoError)

InitialQueue(urls, res) == [k \in 1..Len(urls) |-> InitialItem(res, urls[k])]

PendingCount(q) == Cardinality({k \in 1..Len(q) : q[k].status = "pending"})

\* a progress value: 100 * num / den
Fraction(n, d) == [num |-> n, den |-> d]

\* a value of `eta`: '', 'Calculating...', `${seconds}s`,
\* `${minutes}m ${remainingSeconds}s`
Eta(form, m, sec) == [form |-> form, minutes |-> m, seconds |-> sec]
NoEta == Eta("", 0, 0)
Calculating == Eta("Calculating...", 0, 0)

\* formatTime (part_002 lines 47-54) of the number ms.num / ms.den
formatTime(ms) ==
    LET thousand == 1000 * ms.den
        seconds == (ms.num + thousand - 1) \div thousand     \* Math.ceil
    IN  IF ms.num < 0 THEN Calculating
        ELSE IF seconds < 60 THEN Eta("s", 0, seconds)
        ELSE Eta("m s", seconds \div 60, seconds % 60)

\* the button that calls handleStart is rendered only while not PROCESSING
CanStart == appState # "PROCESSING" /\ pc = "idle" /\ runs < MaxRuns

ResetCallState ==
    /\ strat' = 0 /\ timerArmed' = FALSE /\ htmlContent' = NoContent
    /\ errorDetails' = <<>> /\ attempt' = 0 /\ delay' = 0 /\ error' = NoGeminiError
    /\ attempted' = <<>> /\ requestLog' = 0 /\ lastContent' = NotDelivered

\* lines 157-163
StartNeedsCredentials ==
    /\ CanStart
    /\ NeedsAwsModal
    /\ notice' = "awsModal"
    /\ runs' = runs + 1
    /\ UNCHANGED <<sitemapInput, provider, awsConfig, results, queue, appState, progress>>
    /\ UNCHANGED <<loopVars, fetchVars, geminiVars, net, resolveVars, etaVars, file, textVars, histVars>>

\* lines 166-176
StartNothingToDo ==
    /\ CanStart
    /\ ~NeedsAwsModal
    /\ IsBlankText(sitemapInput) \/ Len(parseSitemap(sitemapInput)) = 0
    /\ notice' = IF IsBlankText(sitemapInput) THEN "pasteSitemap" ELSE "noUrls"
    /\ runs' = runs + 1
    /\ UNCHANGED <<sitemapInput, provider, awsConfig, results, queue, appState, progress>>
    /\ UNCHANGED <<loopVars, fetchVars, geminiVars, net, resolveVars, etaVars, file, textVars, histVars>>

\* lines 178-205: every url of the sitemap is already in results
StartAllDone ==
    LET initialQueue == InitialQueue(parseSitemap(sitemapInput), results)
    IN  /\ CanStart
        /\ ~NeedsAwsModal
        /\ ~IsBlankText(sitemapInput)
        /\ Len(initialQueue) > 0
        /\ PendingCount(initialQueue) = 0
        /\ queue' = initialQueue
        /\ appState' = "COMPLETED"
        /\ progress' = Fraction(1, 1)
        /\ notice' = "allDone"
        /\ runs' = runs + 1
        /\ fetchLog' = <<>> /\ classifyLog' = <<>> /\ cancelled' = FALSE
        /\ resultsAtStart' = results
        /\ UNCHANGED <<sitemapInput, provider, awsConfig, results>>
        /\ UNCHANGED <<loopVars, fetchVars, geminiVars, net, resolveVars, etaVars, file, textVars>>
        /\ UNCHANGED <<attempted, requestLog, lastContent>>

\* lines 178-212, and processQueue up to its loop (lines 226-228)
StartRun ==
    LET initialQueue == InitialQueue(parseSitemap(sitemapInput), results)
        pendingCount == PendingCount(initialQueue)
    IN  /\ CanStart
        /\ ~NeedsAwsModal
        /\ ~IsBlankText(sitemapInput)
        /\ pendingCount > 0
        /\ queue' = initialQueue
        /\ appState' = "PROCESSING"
        /\ progress' = Fraction(Len(initialQueue) - pendingCount, Len(initialQueue))
        /\ notice' = "none"
        /\ isRunning' = TRUE
        /\ pc' = "loop"
        /\ idx' = 1
        /\ currentItems' = initialQueue
        /\ sessionProcessedCount' = 0
        /\ elapsed' = 0
        /\ eta' = Calculating
        /\ paced' = 0
        /\ UNCHANGED <<file, textVars>>
        /\ runs' = runs + 1
        /\ ResetCallState
        /\ fetchLog' = <<>> /\ classifyLog' = <<>> /\ cancelled' = FALSE
        /\ resultsAtStart' = results
        /\ UNCHANGED <<sitemapInput, provider, awsConfig, results, net, resolveVars>>

(***************************************************************************)
(* processQueue: the loop.                                                 *)
(***************************************************************************)
\* line 231
KeepsRunning == isRunning

IsSkippedOrFirstUrl(item) == item.status = "completed" \/ item.url = "u1"

IsSkippedNever(item) == FALSE

\* lines 233-235
IsSkipped(item) == item.status = "completed"

\* the loop is left (line 230 or 231); handleStart goes on at lines 214-216
LoopExit ==
    /\ pc = "loop"
    /\ idx > Len(currentItems) \/ ~KeepsRunning
    /\ appState' = "COMPLETED"
    /\ isRunning' = FALSE
    /\ pc' = "idle"
    /\ eta' = NoEta
    /\ UNCHANGED <<file, textVars, paced>>
    /\ UNCHANGED <<sitemapInput, provider, awsConfig, results, queue, progress, notice>>
    /\ UNCHANGED <<idx, currentItems, sessionProcessedCount, elapsed>>
    /\ UNCHANGED <<fetchVars, geminiVars, net, resolveVars, runs, histVars>>

\* lines 233-235: `continue`
LoopSkip ==
    /\ pc = "loop"
    /\ idx <= Len(currentItems)
    /\ KeepsRunning
    /\ IsSkipped(currentItems[idx])
    /\ idx' = idx + 1
    /\ UNCHANGED <<appVars, isRunning, pc, currentItems, sessionProcessedCount>>
    /\ UNCHANGED <<fetchVars, geminiVars, net, resolveVars, etaVars, file, textVars, runs, histVars>>

ScrapingItemAsClassifying(item) == [item EXCEPT !.status = "classifying"]

\* lines 237-241
ScrapingItem(item) == [item EXCEPT !.status = "scraping"]

\* lines 237-244, and scrapeContent up to its first await (lines 74-87)
LoopStartItem ==
    /\ pc = "loop"
    /\ idx <= Len(currentItems)
    /\ KeepsRunning
    /\ ~IsSkipped(currentItems[idx])
    /\ queue' = [queue EXCEPT ![idx] = ScrapingItem(queue[idx])]
    /\ pc' = "fetch"
    /\ strat' = 1
    /\ timerArmed' = TRUE
    /\ htmlContent' = NoContent
    /\ errorDetails' = <<>>
    /\ attempted' = <<1>>
    /\ lastContent' = NotDelivered
    /\ fetchLog' = Append(fetchLog, currentItems[idx].url)
    /\ UNCHANGED resultsAtStart
    /\ UNCHANGED <<sitemapInput, provider, awsConfig, results, appState, progress, notice>>
    /\ UNCHANGED <<isRunning, idx, currentItems, sessionProcessedCount>>
    /\ UNCHANGED <<geminiVars, net, resolveVars, etaVars, file, textVars, runs, classifyLog, requestLog, cancelled>>

remainingCountOfAllLater(i) == Len(currentItems) - i

\* lines 286-289, for i = idx - 1
remainingCount(i) ==
    Cardinality({j \in (i + 1)..Len(currentItems) : currentItems[j].status # "completed"})

\* lines 284-290
estimatedRemainingMs(elapsedMs, processed) ==
    Fraction(elapsedMs * remainingCount(idx), processed)

\* the time that passes between two readings of Date.now() at line 283
Durations == {1500, 90000}

ItemDoneCountsNext(item) ==
    /\ queue' = [queue EXCEPT ![idx] = item]
    /\ sessionProcessedCount' = sessionProcessedCount + 1
    /\ progress' = Fraction(idx + 1, Len(currentItems))
    /\ \E d \in Durations :
          /\ elapsed' = elapsed + d
          /\ eta' = formatTime(estimatedRemainingMs(elapsed + d,
                                                    sessionProcessedCount + 1))
    /\ pc' = "delay"
    /\ paced' = 0
    /\ UNCHANGED <<sitemapInput, provider, awsConfig, appState, notice, file, textVars>>
    /\ UNCHANGED <<isRunning, idx, currentItems>>

\* lines 280-297: the item is done, the pacing delay is awaited
ItemDone(item) ==
    /\ queue' = [queue EXCEPT ![idx] = item]
    /\ sessionProcessedCount' = sessionProcessedCount + 1
    /\ progress' = Fraction(idx, Len(currentItems))
    /\ \E d \in Durations :
          /\ elapsed' = elapsed + d
          /\ eta' = formatTime(estimatedRemainingMs(elapsed + d,
                                                    sessionProcessedCount + 1))
    /\ pc' = "delay"
    /\ paced' = 0
    /\ UNCHANGED <<sitemapInput, provider, awsConfig, appState, notice, file, textVars>>
    /\ UNCHANGED <<isRunning, idx, currentItems>>

ErrorItemKeepsStatus(item, msg) == [item EXCEPT !.error = msg]

\* lines 271-278
ErrorItem(item, msg) == [item EXCEPT !.status = "error", !.error = msg]

ItemFailsAbortsRun(msg) ==
    /\ queue' = [queue EXCEPT ![idx] = ErrorItem(queue[idx], msg)]
    /\ appState' = "IDLE"
    /\ pc' = "idle"
    /\ UNCHANGED <<sitemapInput, provider, awsConfig, results, progress, notice>>
    /\ UNCHANGED <<isRunning, idx, currentItems, sessionProcessedCount, etaVars, file, textVars>>

\* the catch of lines 271-278, then lines 280-297
ItemFails(msg) ==
    /\ ItemDone(ErrorItem(queue[idx], msg))
    /\ UNCHANGED results

pacingDelaySwapped == IF provider = "bedrock" THEN 2000 ELSE 500

\* line 296: `const delay = provider === 'bedrock' ? 500 : 2000`
pacingDelay == IF provider = "bedrock" THEN 500 ELSE 2000

\* the timer of line 297 has fired; the loop goes round (line 230, i++)
DelayElapsed ==
    /\ pc = "delay"
    /\ pc' = "loop"
    /\ idx' = idx + 1
    /\ paced' = pacingDelay
    /\ error' = NoGeminiError
    /\ UNCHANGED <<appVars, isRunning, currentItems, sessionProcessedCount>>
    /\ UNCHANGED <<fetchVars, attempt, delay, net, resolveVars, elapsed, eta, file, textVars, runs, histVars>>


(***************************************************************************)
(* services/crawler.ts: scrapeContent.                                     *)
(*   pc = "fetch": awaiting fetch() of strategy `strat` (line 85)          *)
(*   pc = "body" : awaiting strategy.handler(response) (line 92)           *)
(***************************************************************************)
LoopNeverBreaks(h) == FALSE

\* line 78: `if (htmlContent) break`
LoopBreaks(h) == h # NoContent

IsSubstantialAtThreshold(content) == content # NoContent /\ content >= MinContentLen

\* line 93: `content && content.length > 50`
IsSubstantial(content) == content # NoContent /\ content > MinContentLen

\* line 96
TooShort == "Returned empty or too short content"

Detail(name, reason) == [name |-> name, reason |-> reason]

\* line 112
FetchFailed(details) == [kind |-> "FetchFailed", details |-> details]
\* line 140
ParseFailed == [kind |-> "ParseFailed", details |-> <<>>]

GoesOnSkipsLast(h) == strat < Len(Strategies) - 1 /\ ~LoopBreaks(h)

\* the loop goes round again
GoesOn(h) == strat < Len(Strategies) /\ ~LoopBreaks(h)

\* lines 77-87 for the next strategy: a new timer, a new fetch
NextAttempt(h, details) ==
    /\ strat' = strat + 1
    /\ timerArmed' = TRUE
    /\ htmlContent' = h
    /\ errorDetails' = details
    /\ attempted' = Append(attempted, strat + 1)
    /\ pc' = "fetch"
    /\ UNCHANGED <<appVars, isRunning, idx, currentItems, sessionProcessedCount>>
    /\ UNCHANGED <<geminiVars, net, resolveVars, etaVars, file, textVars, runs, fetchLog, resultsAtStart, classifyLog, requestLog, cancelled>>

\* scrapeContent returns or throws: its locals are gone
CallEnds ==
    /\ strat' = 0
    /\ htmlContent' = NoContent
    /\ errorDetails' = <<>>
    /\ timerArmed' = FALSE
    /\ attempted' = <<>>
    /\ UNCHANGED <<net, resolveVars, runs, fetchLog, resultsAtStart, cancelled>>

\* lines 110-113: the throw lands in processQueue's catch (lines 271-278)
ThrowsFetchFailed(details) ==
    /\ CallEnds
    /\ ItemFails(FetchFailed(details))
    /\ UNCHANGED <<geminiVars, classifyLog, requestLog>>

ThrowsParseFailedAsFetchFailed ==
    /\ CallEnds
    /\ ItemFails(FetchFailed(errorDetails))
    /\ UNCHANGED <<geminiVars, classifyLog, requestLog>>

\* lines 138-141: the markup could not be read
ThrowsParseFailed ==
    /\ CallEnds
    /\ ItemFails(ParseFailed)
    /\ UNCHANGED <<geminiVars, classifyLog, requestLog>>

\* processQueue lines 246-250
ClassifyingItem(item) == [item EXCEPT !.status = "classifying"]

\* lines 115-137 return the text; processQueue lines 246-258 set the item
\* to classifying and call the classification client of the provider:
\* classifyPageContent up to its first request (services/gemini lines 52-69),
\* or classifyWithBedrock (its credentials are resolved in BedrockResolve)
ReturnsText ==
    /\ CallEnds
    /\ queue' = [queue EXCEPT ![idx] = ClassifyingItem(queue[idx])]
    /\ classifyLog' = Append(classifyLog, currentItems[idx].url)
    /\ IF provider = "bedrock"
       THEN pc' = "bedrock" /\ attempt' = 0 /\ delay' = 0 /\ requestLog' = 0
       ELSE pc' = "gemini" /\ attempt' = 0 /\ delay' = InitialDelay /\ requestLog' = 1
    /\ error' = NoGeminiError
    /\ UNCHANGED <<etaVars, file, textVars>>
    /\ UNCHANGED <<sitemapInput, provider, awsConfig, results, appState, progress, notice>>
    /\ UNCHANGED <<isRunning, idx, currentItems, sessionProcessedCount>>

\* what follows one attempt of the loop, lines 77-113
AfterAttempt(h, details) ==
    \/ GoesOn(h) /\ NextAttempt(h, details)
    \/ ~GoesOn(h) /\ h = NoContent /\ ThrowsFetchFailed(details)
    \/ ~GoesOn(h) /\ h # NoContent /\ ReturnsText
    \/ ~GoesOn(h) /\ h # NoContent /\ ThrowsParseFailed

\* the attempt has failed: exactly one reason is pushed (lines 96, 99, 105)
AttemptFails(reason) ==
    AfterAttempt(htmlContent, Append(errorDetails, Detail(Strategies[strat], reason)))

\* line 85 resolves with a 2xx response: line 89 clears the timer, the body is awaited
FetchRespondsOk ==
    /\ pc = "fetch"
    /\ timerArmed' = FALSE
    /\ pc' = "body"
    /\ lastContent' = NotDelivered
    /\ UNCHANGED <<appVars, isRunning, idx, currentItems, sessionProcessedCount>>
    /\ UNCHANGED <<strat, htmlContent, errorDetails, geminiVars, net, resolveVars, etaVars, file, textVars, runs>>
    /\ UNCHANGED <<attempted, fetchLog, resultsAtStart, classifyLog, requestLog, cancelled>>

\* line 85 resolves with another status: lines 89, 98-100
FetchRespondsError ==
    /\ pc = "fetch"
    /\ "http" \in net
    /\ AttemptFails("HTTP status")
    /\ UNCHANGED lastContent

\* line 85 rejects, the network failed: lines 101-106
FetchRejects ==
    /\ pc = "fetch"
    /\ "exception" \in net
    /\ AttemptFails("exception message")
    /\ UNCHANGED lastContent

\* lines 83 and 104: the timer fires, controller.abort() rejects the fetch
TimerFires ==
    /\ pc = "fetch"
    /\ timerArmed
    /\ "timeout" \in net
    /\ AttemptFails("Timeout")
    /\ UNCHANGED lastContent

\* line 92 resolves with the content
BodyArrives(content) ==
    /\ pc = "body"
    /\ lastContent' = content
    /\ IF IsSubstantial(content)
       THEN AfterAttempt(content, errorDetails)
       ELSE "short" \in net /\ AttemptFails(TooShort)

\* line 92 rejects (the body is no JSON, the connection dropped)
BodyThrows ==
    /\ pc = "body"
    /\ "exception" \in net
    /\ AttemptFails("exception message")
    /\ UNCHANGED lastContent


(***************************************************************************)
(* scrapeContent, lines 130-137: the text of the page. A text is a         *)
(* sequence of runs, each `len` times the character `char`, so that texts  *)
(* longer than the limit of line 137 can be told from shorter ones.        *)
(***************************************************************************)
MaxTextLength == 30000

Run(c, n) == [char |-> c, len |-> n]

\* scrapeContent has not returned
NoText == <<Run("none", 0)>>

\* String.prototype.length
RECURSIVE length(_)
length(s) == IF s = <<>> THEN 0 ELSE Head(s).len + length(Tail(s))

\* line 134: replace(/\s+/g, ' '), every run of white space becomes one space
RECURSIVE replaceWhitespace(_)
replaceWhitespace(s) ==
    IF s = <<>> THEN <<>>
    ELSE LET rest == replaceWhitespace(Tail(s))
         IN  IF ~IsSpace(Head(s).char) THEN <<Head(s)>> \o rest
             ELSE IF rest # <<>> /\ Head(rest) = Run(" ", 1) THEN rest
             ELSE <<Run(" ", 1)>> \o rest

\* line 134: trim()
RECURSIVE trimStart(_)
trimStart(s) == IF s # <<>> /\ IsSpace(Head(s).char) THEN trimStart(Tail(s)) ELSE s

RECURSIVE trimEnd(_)
trimEnd(s) ==
    IF s # <<>> /\ IsSpace(s[Len(s)].char) THEN trimEnd(SubSeq(s, 1, Len(s) - 1)) ELSE s

\* line 134
cleanedText(body) == trimStart(trimEnd(replaceWhitespace(body)))

\* line 137: substring(0, n)
RECURSIVE substring(_, _)
substring(s, n) ==
    IF s = <<>> \/ n <= 0 THEN <<>>
    ELSE IF Head(s).len <= n THEN <<Head(s)>> \o substring(Tail(s), n - Head(s).len)
    ELSE <<Run(Head(s).char, n)>>

\* lines 131-137: scrapeContent returns the text of the page
scrapeContentReturns ==
    /\ scrapedText = NoText
    /\ scrapedText' = substring(cleanedText(bodyText), MaxTextLength)
    /\ UNCHANGED <<appVars, loopVars, fetchVars, geminiVars, net, runs, histVars,
                   resolveVars, etaVars, file, bodyText>>


(***************************************************************************)
(* The classification clients.                                             *)
(***************************************************************************)
\* the object JSON.parse makes of the backend's text: its title, and its
\* url member if it has one (NoUrl: none)
ParsedResults == {[title |-> "t1", url |-> NoUrl], [title |-> "t1", url |-> "u1"]}

\* `{ url, ...result }`: a member of result replaces the caller's
MergePage(u, result) == Page(IF result.url = NoUrl THEN u ELSE result.url, result.title)

AddResultAlways(res, data) == Append(res, data)

\* processQueue lines 260-263
AddResult(res, data) == IF HasResult(res, data.url) THEN res ELSE Append(res, data)

\* processQueue lines 265-269
CompletedItem(item, data) == [item EXCEPT !.status = "completed", !.data = data]

\* the client returned classifiedData: processQueue lines 260-269, 280-297
ClassifySucceeds(data) ==
    /\ results' = AddResult(results, data)
    /\ ItemDone(CompletedItem(queue[idx], data))
    /\ attempt' = 0 /\ delay' = 0 /\ requestLog' = 0 /\ error' = NoGeminiError
    /\ UNCHANGED <<fetchVars, net, resolveVars, runs, attempted, lastContent, fetchLog, resultsAtStart, classifyLog, cancelled>>

\* the client threw: processQueue lines 271-278, 280-297
ClassifyFails(kind) ==
    /\ ItemFails([kind |-> kind, details |-> <<>>])
    /\ attempt' = 0 /\ delay' = 0 /\ requestLog' = 0
    /\ UNCHANGED <<fetchVars, net, resolveVars, runs, attempted, lastContent, fetchLog, resultsAtStart, classifyLog, cancelled>>

(***************************************************************************)
(* services/gemini: classifyPageContent.                                   *)
(*   pc = "gemini": awaiting ai.models.generateContent (line 69)           *)
(*   pc = "wait"  : awaiting wait(delay) (line 104)                        *)
(***************************************************************************)
GeminiErrors ==
    { GeminiError("EmptyResponse", 0, 0, FALSE),    \* line 84
      GeminiError("SyntaxError", 0, 0, FALSE),      \* line 86, JSON.parse
      GeminiError("SyntaxError", 0, 0, TRUE),       \* its message quotes the text
      GeminiError("ApiError", 429, 0, TRUE),
      GeminiError("ApiError", 0, 429, FALSE),
      GeminiError("ApiError", 500, 0, FALSE),
      GeminiError("TypeError", 0, 0, FALSE) }       \* line 69, the network failed

\* lines 93-100
isRateLimit(e) == e.status = 429 \/ e.code = 429 \/ e.mentions

RetriesOnceMore(e) == isRateLimit(e) /\ attempt <= MAX_RETRIES

RetriesAnyError(e) == attempt < MAX_RETRIES

\* line 102
Retries(e) == isRateLimit(e) /\ attempt < MAX_RETRIES

\* lines 83-90
GeminiReturns(result) ==
    /\ pc = "gemini"
    /\ ClassifySucceeds(MergePage(currentItems[idx].url, result))

\* lines 102-108: the backoff wait begins
GeminiBacksOff(e) ==
    /\ pc = "gemini"
    /\ Retries(e)
    /\ error' = e
    /\ pc' = "wait"
    /\ UNCHANGED <<appVars, isRunning, idx, currentItems, sessionProcessedCount>>
    /\ UNCHANGED <<fetchVars, attempt, delay, net, resolveVars, etaVars, file, textVars, runs, histVars>>

\* lines 110-111
GeminiThrows(e) ==
    /\ pc = "gemini"
    /\ ~Retries(e)
    /\ error' = e
    /\ ClassifyFails(e.kind)

\* lines 104-107, then the next request (line 69)
WaitElapsed ==
    /\ pc = "wait"
    /\ attempt' = attempt + 1
    /\ delay' = delay * 2
    /\ error' = NoGeminiError
    /\ requestLog' = requestLog + 1
    /\ pc' = "gemini"
    /\ UNCHANGED <<appVars, isRunning, idx, currentItems, sessionProcessedCount>>
    /\ UNCHANGED <<fetchVars, net, resolveVars, etaVars, file, textVars, runs, attempted, lastContent, fetchLog, resultsAtStart, classifyLog, cancelled>>

(***************************************************************************)
(* services/bedrock.ts: classifyWithBedrock.                               *)
(*   pc = "bedrock" : the call has begun (lines 230-264)                   *)
(*   pc = "exchange": awaiting exchangeHackathonKey (line 270)             *)
(*   pc = "invoke"  : awaiting invokeBedrockWithIam (line 292)             *)
(***************************************************************************)
BedrockResolve ==
    /\ pc = "bedrock"
    /\ LET step == ResolveSteps[awsConfig]
       IN  \/ /\ step = "exchange"
              /\ pc' = "exchange"
              /\ UNCHANGED <<appVars, isRunning, idx, currentItems, sessionProcessedCount>>
              /\ UNCHANGED <<fetchVars, geminiVars, net, resolveVars, etaVars, file, textVars, runs, histVars>>
           \/ /\ step = "ready"
              /\ pc' = "invoke"
              /\ requestLog' = requestLog + 1
              /\ UNCHANGED <<appVars, isRunning, idx, currentItems, sessionProcessedCount>>
              /\ UNCHANGED <<fetchVars, geminiVars, net, resolveVars, etaVars, file, textVars, runs>>
              /\ UNCHANGED <<attempted, lastContent, fetchLog, resultsAtStart, classifyLog, cancelled>>
           \/ /\ step = "invalid"
              /\ ClassifyFails("InvalidCredentialFormat")
              /\ UNCHANGED error
           \/ /\ step = "missing"
              /\ ClassifyFails("MissingCredentials")
              /\ UNCHANGED error

\* exchangeHackathonKey returns credentials; line 292 sends the request
ExchangeReturns ==
    /\ pc = "exchange"
    /\ pc' = "invoke"
    /\ requestLog' = requestLog + 1
    /\ UNCHANGED <<appVars, isRunning, idx, currentItems, sessionProcessedCount>>
    /\ UNCHANGED <<fetchVars, geminiVars, net, resolveVars, etaVars, file, textVars, runs>>
    /\ UNCHANGED <<attempted, lastContent, fetchLog, resultsAtStart, classifyLog, cancelled>>

\* exchangeHackathonKey throws (lines 95, 123)
ExchangeErrors == {"KeyExchangeFailed", "KeyExchangeInvalid"}

ExchangeThrows(kind) ==
    /\ pc = "exchange"
    /\ ClassifyFails(kind)
    /\ UNCHANGED error

\* lines 294-302
InvokeReturns(result) ==
    /\ pc = "invoke"
    /\ ClassifySucceeds(MergePage(currentItems[idx].url, result))

\* what classifyWithBedrock throws after the request was sent:
\*   "ModelIdError"            lines 214-216 (ValidationException, throughput)
\*   "AuthenticationFailed"    lines 217-219
\*   "ThrottlingException",
\*   "InternalServerException" line 220, the error of client.send rethrown
\*   "EmptyResponse"           line 294
\*   "SyntaxError"             lines 209, 297 (JSON.parse)
InvokeErrors ==
    {"ModelIdError", "AuthenticationFailed", "ThrottlingException",
     "InternalServerException", "EmptyResponse", "SyntaxError"}

InvokeThrowsAndResends(kind) ==
    /\ pc = "invoke"
    /\ kind = "ThrottlingException"
    /\ requestLog' = requestLog + 1
    /\ UNCHANGED <<appVars, loopVars, fetchVars, geminiVars, net, resolveVars, etaVars, file, textVars, runs>>
    /\ UNCHANGED <<attempted, lastContent, fetchLog, resultsAtStart, classifyLog, cancelled>>

\* lines 304-308: the catch of classifyWithBedrock rethrows
InvokeThrows(kind) ==
    /\ pc = "invoke"
    /\ ClassifyFails(kind)
    /\ UNCHANGED error

(***************************************************************************)
(* The keep-running flag is a ref the caller may clear while the run is    *)
(* suspended at an await.                                                  *)
(***************************************************************************)
AwaitPoints == {"fetch", "body", "gemini", "wait", "exchange", "invoke", "delay"}

Cancel ==
    /\ pc \in AwaitPoints
    /\ isRunning
    /\ isRunning' = FALSE
    /\ cancelled' = TRUE
    /\ UNCHANGED <<appVars, pc, idx, currentItems, sessionProcessedCount>>
    /\ UNCHANGED <<fetchVars, geminiVars, net, resolveVars, etaVars, file, textVars, runs>>
    /\ UNCHANGED <<attempted, lastContent, fetchLog, resultsAtStart, classifyLog, requestLog>>

(***************************************************************************)
(* services/bedrock.ts: the credential resolution of classifyWithBedrock   *)
(* (lines 263-290) and exchangeHackathonKey (lines 33-125), call by call.  *)
(*   rpc = "idle"    : no call was made yet                                *)
(*   rpc = "resolve" : a call has begun (line 263)                         *)
(*   rpc = "strategy": awaiting strategy `strategy` (line 86)              *)
(*   rpc = "returned": `credentials` are handed to invokeBedrockWithIam    *)
(*   rpc = "thrown"  : the call threw `thrown`                             *)
(***************************************************************************)
MaxTicks == 3       \* times the clock is advanced in one session

FiveMinutes == 300000
OneHour == 3600000

\* a time value: getTime() of an invalid date is NaN
Time(nan, ms) == [nan |-> nan, ms |-> ms]

\* the Expiration member of a response, by what new Date(..).getTime()
\* makes of it; absent: given is FALSE
ExpirationStr(given, time) == [given |-> given, time |-> time]
NoExpirationStr == ExpirationStr(FALSE, Time(TRUE, 0))

CachedCreds(ak, sk, tok, exp) ==
    [accessKeyId |-> ak, secretAccessKey |-> sk, sessionToken |-> tok,
     expiration |-> exp]

\* cachedCreds = null
NoCachedCreds == CachedCreds(Undefined, Undefined, Undefined, Time(TRUE, 0))

CacheIsFreshWithoutMargin ==
    /\ cachedCreds # NoCachedCreds
    /\ ~cachedCreds.expiration.nan
    /\ cachedCreds.expiration.ms > now

\* line 35
CacheIsFresh ==
    /\ cachedCreds # NoCachedCreds
    /\ ~cachedCreds.expiration.nan
    /\ cachedCreds.expiration.ms > now + FiveMinutes

\* lines 46-57
DecodeThrows(cleanKey) ==
    AtobThrows(SubSeq(cleanKey, Len(KeyPrefix) + 1, Len(cleanKey)))

DecodedUrl(cleanKey) ==
    LET decodedUrl == Atob(SubSeq(cleanKey, Len(KeyPrefix) + 1, Len(cleanKey)))
    IN  IF StartsWith(decodedUrl, <<"h", "t", "t", "p">>) THEN decodedUrl
        ELSE <<"h", "t", "t", "p", "s", ":", "/", "/">> \o decodedUrl

\* lines 60-79
ExchangeStrategies == <<"CorsProxy", "AllOrigins", "Direct">>

\* the credential the endpoint at url issues
Issued(field, url) == <<field, "-">> \o url

\* what res.json() makes of a response: the object {} ...
EmptyBody ==
    [null |-> FALSE,
     AccessKeyId |-> Undefined, accessKeyId |-> Undefined,
     SecretAccessKey |-> Undefined, secretAccessKey |-> Undefined,
     SessionToken |-> Undefined, sessionToken |-> Undefined,
     Expiration |-> NoExpirationStr, expiration |-> NoExpirationStr]

\* ... and objects with the credential of the endpoint
CapitalBody(url, exp) ==
    [EmptyBody EXCEPT !.AccessKeyId = Issued("A", url),
                      !.SecretAccessKey = Issued("S", url),
                      !.SessionToken = Issued("T", url),
                      !.Expiration = exp]

CamelBody(url, exp) ==
    [EmptyBody EXCEPT !.accessKeyId = Issued("A", url),
                      !.secretAccessKey = Issued("S", url),
                      !.sessionToken = Issued("T", url),
                      !.expiration = exp]

ExchangeBodies(url) ==
    { [EmptyBody EXCEPT !.null = TRUE],       \* the value null
      CapitalBody(url, NoExpirationStr),
      CapitalBody(url, ExpirationStr(TRUE, Time(FALSE, 2 * FiveMinutes))),
      CamelBody(url, ExpirationStr(TRUE, Time(TRUE, 0))),
      [CapitalBody(url, NoExpirationStr) EXCEPT !.SessionToken = Undefined],
      [CamelBody(url, NoExpirationStr) EXCEPT !.secretAccessKey = <<>>] }

\* the responses of the endpoints of this session
ResponseBodies ==
    UNION {ExchangeBodies(DecodedUrl(key)) : key \in {k \in ExchangeKeys : ~DecodeThrows(k)}}

\* a || b
Or(a, b) == IF Truthy(a) THEN a ELSE b

MissingFieldsNever(data) == FALSE

\* lines 100-107
MissingFields(data) ==
    \/ ~Truthy(Or(data.AccessKeyId, data.accessKeyId))
    \/ ~Truthy(Or(data.SecretAccessKey, data.secretAccessKey))
    \/ ~Truthy(Or(data.SessionToken, data.sessionToken))

\* lines 100-116
ExchangedCreds(data) ==
    LET expirationStr == IF data.Expiration.given THEN data.Expiration
                         ELSE data.expiration
    IN  CachedCreds(Or(data.AccessKeyId, data.accessKeyId),
                    Or(data.SecretAccessKey, data.secretAccessKey),
                    Or(data.SessionToken, data.sessionToken),
                    IF expirationStr.given THEN expirationStr.time
                    ELSE Time(FALSE, now + OneHour))

\* what invokeBedrockWithIam reads of the object exchangeHackathonKey returned
CredsOf(c) == Creds(c.accessKeyId, c.secretAccessKey, c.sessionToken)

pipelineVars == <<sitemapInput, provider, results, queue, appState, progress,
                  notice, loopVars, fetchVars, geminiVars, net, runs, histVars,
                  etaVars, file, textVars>>

BetweenCalls == rpc \in {"idle", "returned", "thrown"}

\* part_002 lines 452-528: the credentials form sets awsConfig
SetAwsConfig(config) ==
    /\ BetweenCalls
    /\ awsConfig # config
    /\ awsConfig' = config
    /\ UNCHANGED <<pipelineVars, resolveVars>>

\* Date.now() has grown
Tick(d) ==
    /\ ticks < MaxTicks
    /\ now' = now + d
    /\ ticks' = ticks + 1
    /\ UNCHANGED <<pipelineVars, awsConfig>>
    /\ UNCHANGED <<cachedCreds, credentials, rpc, strategy, thrown, exchangeLog>>

\* classifyWithBedrock is called with awsConfig (lines 224-263)
ResolveBegins ==
    /\ BetweenCalls
    /\ rpc' = "resolve"
    /\ credentials' = NoCreds
    /\ thrown' = "none"
    /\ strategy' = 0
    /\ exchangeLog' = 0
    /\ UNCHANGED <<pipelineVars, awsConfig, cachedCreds, now, ticks>>

\* the credentials are resolved; line 292 is next
ResolveReturns(creds) ==
    /\ rpc' = "returned"
    /\ credentials' = creds
    /\ UNCHANGED <<pipelineVars, awsConfig, now, ticks, thrown>>

\* the resolution throws; the catch of lines 304-308 rethrows
ResolveThrows(kind) ==
    /\ rpc' = "thrown"
    /\ thrown' = kind
    /\ UNCHANGED <<pipelineVars, awsConfig, now, ticks, credentials, cachedCreds>>

\* lines 265-288, and exchangeHackathonKey up to its first await (lines 35-86)
Resolve ==
    /\ rpc = "resolve"
    /\ LET step == ResolveSteps[awsConfig]
           cleanKey == sanitize(awsConfig.apiKey)
       IN  \/ /\ step = "invalid"
              /\ ResolveThrows("InvalidCredentialFormat")
              /\ UNCHANGED <<strategy, exchangeLog>>
           \/ /\ step = "missing"
              /\ ResolveThrows("MissingCredentials")
              /\ UNCHANGED <<strategy, exchangeLog>>
           \/ /\ step = "ready"
              /\ ResolveReturns(ResolvedCredentials(awsConfig))
              /\ UNCHANGED <<cachedCreds, strategy, exchangeLog>>
           \/ /\ step = "exchange"
              /\ CacheIsFresh
              /\ ResolveReturns(CredsOf(cachedCreds))
              /\ UNCHANGED <<cachedCreds, strategy, exchangeLog>>
           \/ /\ step = "exchange"
              /\ ~CacheIsFresh
              /\ DecodeThrows(cleanKey)
              /\ ResolveThrows("KeyDecodeFailed")
              /\ UNCHANGED <<strategy, exchangeLog>>
           \/ /\ step = "exchange"
              /\ ~CacheIsFresh
              /\ ~DecodeThrows(cleanKey)
              /\ rpc' = "strategy"
              /\ strategy' = 1
              /\ exchangeLog' = exchangeLog + 1
              /\ UNCHANGED <<pipelineVars, awsConfig, now, ticks>>
              /\ UNCHANGED <<cachedCreds, credentials, thrown>>

\* lines 84-96: the loop goes on to the next strategy, or is at its end
NextStrategy ==
    IF strategy < Len(ExchangeStrategies)
    THEN /\ strategy' = strategy + 1
         /\ exchangeLog' = exchangeLog + 1
         /\ UNCHANGED <<pipelineVars, awsConfig, now, ticks>>
         /\ UNCHANGED <<cachedCreds, credentials, rpc, thrown>>
    ELSE /\ ResolveThrows("KeyExchangeFailed")
         /\ UNCHANGED <<strategy, exchangeLog>>

\* the strategy's fetch answered ok and res.json() returned data (lines 86-119)
StrategyReturns(data) ==
    /\ rpc = "strategy"
    /\ data \in ExchangeBodies(DecodedUrl(sanitize(awsConfig.apiKey)))
    /\ IF data.null THEN NextStrategy
       ELSE IF MissingFields(data)
       THEN /\ ResolveThrows("KeyExchangeInvalid")
            /\ UNCHANGED <<strategy, exchangeLog>>
       ELSE /\ cachedCreds' = ExchangedCreds(data)
            /\ ResolveReturns(CredsOf(ExchangedCreds(data)))
            /\ UNCHANGED <<strategy, exchangeLog>>

\* the strategy threw: fetch rejected, !res.ok, or res.json() threw (lines 89-92)
StrategyThrows ==
    /\ rpc = "strategy"
    /\ NextStrategy

(***************************************************************************)
(* The session.                                                            *)
(***************************************************************************)
\* no credential was resolved yet
NoResolution ==
    /\ cachedCreds = NoCachedCreds
    /\ now = 0
    /\ credentials = NoCreds
    /\ rpc = "idle"
    /\ strategy = 0
    /\ thrown = "none"
    /\ exchangeLog = 0
    /\ ticks = 0

\* results restored from the saved session (lines 91-98)
PriorResults == {<<>>, <<Page("u1", "t0")>>}

\* the state after mount: provider, configuration, sitemap and results are
\* what the saved session holds (lines 91-122)
Init ==
    /\ \/ provider = "gemini" /\ awsConfig = DefaultConfig /\ net \in NetProfiles
       \/ provider = "bedrock" /\ awsConfig \in Configs /\ net = {"http"}
    /\ sitemapInput \in SitemapTexts
    /\ results \in PriorResults
    /\ queue = <<>>
    /\ appState = "IDLE"
    /\ progress = Fraction(0, 1)
    /\ notice = "none"
    /\ isRunning = FALSE
    /\ pc = "idle"
    /\ idx = 0
    /\ currentItems = <<>>
    /\ sessionProcessedCount = 0
    /\ strat = 0
    /\ timerArmed = FALSE
    /\ htmlContent = NoContent
    /\ errorDetails = <<>>
    /\ attempt = 0
    /\ delay = 0
    /\ error = NoGeminiError
    /\ runs = 0
    /\ attempted = <<>>
    /\ fetchLog = <<>>
    /\ classifyLog = <<>>
    /\ requestLog = 0
    /\ cancelled = FALSE
    /\ resultsAtStart = <<>>
    /\ lastContent = NotDelivered
    /\ NoResolution
    /\ elapsed = 0
    /\ eta = NoEta
    /\ paced = 0
    /\ file = <<>>
    /\ bodyText = <<>>
    /\ scrapedText = NoText

Next ==
    \/ StartNeedsCredentials
    \/ StartNothingToDo
    \/ StartAllDone
    \/ StartRun
    \/ LoopExit
    \/ LoopSkip
    \/ LoopStartItem
    \/ DelayElapsed
    \/ FetchRespondsOk
    \/ FetchRespondsError
    \/ FetchRejects
    \/ TimerFires
    \/ \E content \in ContentLens : BodyArrives(content)
    \/ BodyThrows
    \/ \E result \in ParsedResults : GeminiReturns(result)
    \/ \E e \in GeminiErrors : GeminiBacksOff(e)
    \/ \E e \in GeminiErrors : GeminiThrows(e)
    \/ WaitElapsed
    \/ BedrockResolve
    \/ ExchangeReturns
    \/ \E kind \in ExchangeErrors : ExchangeThrows(kind)
    \/ \E result \in ParsedResults : InvokeReturns(result)
    \/ \E kind \in InvokeErrors : InvokeThrows(kind)
    \/ Cancel

Spec == Init /\ [][Next]_vars

\* the event loop runs a continuation that is ready, and a timer that was
\* set elapses
Continues ==
    \/ LoopExit \/ LoopSkip \/ LoopStartItem \/ BedrockResolve
    \/ DelayElapsed \/ WaitElapsed

\* an awaited fetch or classification call returns or throws
CallSettles ==
    \/ FetchRespondsOk \/ FetchRespondsError \/ FetchRejects \/ TimerFires
    \/ (\E content \in ContentLens : BodyArrives(content)) \/ BodyThrows
    \/ (\E result \in ParsedResults : GeminiReturns(result))
    \/ (\E e \in GeminiErrors : GeminiBacksOff(e))
    \/ (\E e \in GeminiErrors : GeminiThrows(e))
    \/ ExchangeReturns \/ (\E kind \in ExchangeErrors : ExchangeThrows(kind))
    \/ (\E result \in ParsedResults : InvokeReturns(result))
    \/ (\E kind \in InvokeErrors : InvokeThrows(kind))

\* runs in which every call that is awaited eventually returns or throws
FairSpec == Spec /\ WF_vars(Continues) /\ WF_vars(CallSettles)

(***************************************************************************)
(* classifyWithBedrock called again and again with the configuration of    *)
(* the credentials form, up to the point where its credentials are         *)
(* resolved.                                                               *)
(***************************************************************************)
ResolveInit ==
    /\ provider = "bedrock"
    /\ awsConfig \in ResolveConfigs
    /\ net = {"http"}
    /\ sitemapInput = <<>>
    /\ results = <<>>
    /\ queue = <<>>
    /\ appState = "IDLE"
    /\ progress = Fraction(0, 1)
    /\ notice = "none"
    /\ isRunning = FALSE
    /\ pc = "idle"
    /\ idx = 0
    /\ currentItems = <<>>
    /\ sessionProcessedCount = 0
    /\ strat = 0
    /\ timerArmed = FALSE
    /\ htmlContent = NoContent
    /\ errorDetails = <<>>
    /\ attempt = 0
    /\ delay = 0
    /\ error = NoGeminiError
    /\ runs = 0
    /\ attempted = <<>>
    /\ fetchLog = <<>>
    /\ classifyLog = <<>>
    /\ requestLog = 0
    /\ cancelled = FALSE
    /\ resultsAtStart = <<>>
    /\ lastContent = NotDelivered
    /\ NoResolution
    /\ elapsed = 0
    /\ eta = NoEta
    /\ paced = 0
    /\ file = <<>>
    /\ bodyText = <<>>
    /\ scrapedText = NoText

ResolveNext ==
    \/ \E api \in ExchangeKeys : SetAwsConfig(Config("apikey", <<>>, <<>>, api))
    \/ SetAwsConfig(Config("standard", ExampleAccessKey, ExampleSecret, <<>>))
    \/ \E d \in {1, OneHour - FiveMinutes - 1} : Tick(d)
    \/ ResolveBegins
    \/ Resolve
    \/ \E data \in ResponseBodies : StrategyReturns(data)
    \/ StrategyThrows

ResolveSpec == ResolveInit /\ [][ResolveNext]_vars

(***************************************************************************)
(* part_002: downloadJson and handleFileUpload, as a component of its own: *)
(* `results` is any collection the pipeline can have produced, the file is *)
(* a sequence of JSON tokens.                                              *)
(***************************************************************************)
\* a member that the object does not have (undefined)
Absent == NoUrl

\* ClassifiedPage with the members of taxonomySchema (part_001 lines 5-44);
\* the tags object is taken as a whole
ClassifiedPage(u, t, sum, tg) == [url |-> u, title |-> t, summary |-> sum, tags |-> tg]

\* the tags object with every category empty
EmptyTags == "{persona:[],stage:[]}"

\* the pages that `{ url, ...result }` can be for the JSON of a backend
Pages ==
    {ClassifiedPage(u, t, sum, tg) :
        u \in Urls, t \in {"", "t1"}, sum \in {"", Absent},
        tg \in {EmptyTags, "{persona:[persona:caregiver],stage:[]}", Absent}}

\* results holds one page per url (lines 260-263)
Collections ==
    {<<>>} \cup {<<pg>> : pg \in Pages}
    \cup {<<pg, other>> : pg \in {x \in Pages : x.url = "u1"},
                         other \in {x \in Pages : x.url = "u2"}}
    \cup {<<pg, other>> : pg \in {x \in Pages : x.url = "u2" /\ x.title = "t1"},
                         other \in {x \in Pages : x.url = "u1" /\ x.summary = ""}}

\* a token of JSON text: "[", "]", "{", "}", "null", a member `"name": value`
\* of an object, or text that is no JSON
JsonToken(kind, name, value) == [kind |-> kind, name |-> name, value |-> value]
Punct(kind) == JsonToken(kind, "", "")

MemberNames == <<"url", "title", "summary", "tags">>

\* JSON.stringify of one page: members that are undefined are left out
RECURSIVE StringifyMembers(_, _)
StringifyMembers(pg, k) ==
    IF k > Len(MemberNames) THEN <<>>
    ELSE (IF pg[MemberNames[k]] = Absent THEN <<>>
          ELSE <<JsonToken("member", MemberNames[k], pg[MemberNames[k]])>>)
         \o StringifyMembers(pg, k + 1)

\* JSON.stringify(results, null, 2) (line 302)
RECURSIVE Stringify(_)
Stringify(res) ==
    IF res = <<>> THEN <<>>
    ELSE <<Punct("{")>> \o StringifyMembers(Head(res), 1) \o <<Punct("}")>>
         \o Stringify(Tail(res))

\* an element of a parsed array: null, or an object with these members
Element(isNull, pg) == [null |-> isNull, page |-> pg]

\* the object that the member tokens make: a later member replaces an earlier
RECURSIVE ObjectOf(_, _)
ObjectOf(members, pg) ==
    IF members = <<>> THEN pg
    ELSE ObjectOf(Tail(members),
                  IF \E k \in 1..Len(MemberNames) : MemberNames[k] = Head(members).name
                  THEN [pg EXCEPT ![Head(members).name] = Head(members).value]
                  ELSE pg)

\* the elements that the text between "[" and "]" denotes; ok is FALSE where
\* JSON.parse throws a SyntaxError
RECURSIVE ParseElements(_)
ParseElements(toks) ==
    LET closes == {k \in 1..Len(toks) : toks[k].kind = "}"}
        close == CHOOSE k \in closes : \A j \in closes : k <= j
        rest == ParseElements(SubSeq(toks, close + 1, Len(toks)))
        nulls == ParseElements(Tail(toks))
    IN  IF toks = <<>> THEN [ok |-> TRUE, items |-> <<>>]
        ELSE IF Head(toks).kind = "null"
        THEN [ok |-> nulls.ok,
              items |-> <<Element(TRUE, ClassifiedPage(Absent, Absent, Absent, Absent))>>
                        \o nulls.items]
        ELSE IF /\ Head(toks).kind = "{"
                /\ closes # {}
                /\ \A j \in 2..(close - 1) : toks[j].kind = "member"
        THEN [ok |-> rest.ok,
              items |-> <<Element(FALSE,
                                  ObjectOf(SubSeq(toks, 2, close - 1),
                                           ClassifiedPage(Absent, Absent, Absent, Absent)))>>
                        \o rest.items]
        ELSE [ok |-> FALSE, items |-> <<>>]

\* JSON.parse(content) (line 322)
JSONparse(content) ==
    LET inner == ParseElements(SubSeq(content, 2, Len(content) - 1))
        whole == ParseElements(content)
    IN  IF Len(content) >= 2 /\ Head(content).kind = "[" /\ content[Len(content)].kind = "]"
        THEN [ok |-> inner.ok, isArray |-> TRUE, items |-> inner.items]
        ELSE [ok |-> whole.ok /\ Len(whole.items) = 1, isArray |-> FALSE, items |-> <<>>]

\* a value is truthy: not undefined, not null, not ""
IsTruthy(value) == value \notin {Absent, "", "null"}

validAnyMember(item) ==
    IsTruthy(item.page.url) \/ IsTruthy(item.page.title) \/ IsTruthy(item.page.tags)

\* item.url && item.title && item.tags (line 324), for an item that is an object
valid(item) ==
    IsTruthy(item.page.url) /\ IsTruthy(item.page.title) /\ IsTruthy(item.page.tags)

\* the files a user can choose besides the one downloaded: an object, no
\* JSON, an array with null, arrays with a good and a bad object
OtherFiles ==
    LET good == Stringify(<<ClassifiedPage("u1", "t1", "", EmptyTags)>>)
        noTags == Stringify(<<ClassifiedPage("u2", "t1", "", Absent)>>)
        nullTags == <<Punct("{"), JsonToken("member", "url", "u2"),
                      JsonToken("member", "title", "t1"),
                      JsonToken("member", "tags", "null"), Punct("}")>>
    IN  { good, <<JsonToken("junk", "", "")>>, <<Punct("[")>> \o good,
          <<Punct("[")>> \o good \o noTags \o <<Punct("]")>>,
          <<Punct("[")>> \o noTags \o good \o <<Punct("]")>>,
          <<Punct("[")>> \o good \o nullTags \o <<Punct("]")>>,
          <<Punct("[")>> \o good \o <<Punct("null")>> \o <<Punct("]")>>,
          <<Punct("[")>> \o noTags \o <<Punct("null")>> \o <<Punct("]")>> }

\* lines 301-309: the file is written
downloadJson ==
    /\ pc = "idle"
    /\ file' = <<Punct("[")>> \o Stringify(results) \o <<Punct("]")>>
    /\ file' # file
    /\ UNCHANGED textVars
    /\ UNCHANGED <<sitemapInput, provider, awsConfig, results, queue, appState,
                   progress, notice>>
    /\ UNCHANGED <<loopVars, fetchVars, geminiVars, net, runs, histVars,
                   resolveVars, etaVars>>

\* lines 319-340: reader.onload for a chosen file with this content
handleFileUpload(content) ==
    LET parsed == JSONparse(content)
        bad == {k \in 1..Len(parsed.items) :
                    parsed.items[k].null \/ ~valid(parsed.items[k])}
        first == CHOOSE k \in bad : \A j \in bad : k <= j
    IN  /\ pc = "idle"
        /\ IF ~parsed.ok THEN notice' = "Failed to parse JSON file." /\ UNCHANGED results
           ELSE IF ~parsed.isArray
           THEN notice' = "Invalid JSON format. Expected an array." /\ UNCHANGED results
           ELSE IF bad = {}
           THEN /\ results' = [k \in 1..Len(parsed.items) |-> parsed.items[k].page]
                /\ notice' = "Successfully loaded"
           ELSE IF parsed.items[first].null
           THEN notice' = "Failed to parse JSON file." /\ UNCHANGED results
           ELSE /\ notice' = "Invalid JSON format. Expected an array of ClassifiedPage objects."
                /\ UNCHANGED results
        /\ UNCHANGED <<sitemapInput, provider, awsConfig, queue, appState, progress>>
        /\ UNCHANGED <<loopVars, fetchVars, geminiVars, net, runs, histVars,
                       resolveVars, etaVars, file, textVars>>

TransferInit ==
    /\ provider = "gemini"
    /\ awsConfig = DefaultConfig
    /\ net = {"http"}
    /\ sitemapInput = <<>>
    /\ results \in Collections
    /\ queue = <<>>
    /\ appState = "IDLE"
    /\ progress = Fraction(0, 1)
    /\ notice = "none"
    /\ isRunning = FALSE
    /\ pc = "idle"
    /\ idx = 0
    /\ currentItems = <<>>
    /\ sessionProcessedCount = 0
    /\ strat = 0
    /\ timerArmed = FALSE
    /\ htmlContent = NoContent
    /\ errorDetails = <<>>
    /\ attempt = 0
    /\ delay = 0
    /\ error = NoGeminiError
    /\ runs = 0
    /\ attempted = <<>>
    /\ fetchLog = <<>>
    /\ classifyLog = <<>>
    /\ requestLog = 0
    /\ cancelled = FALSE
    /\ resultsAtStart = <<>>
    /\ lastContent = NotDelivered
    /\ NoResolution
    /\ elapsed = 0
    /\ eta = NoEta
    /\ paced = 0
    /\ file = <<>>
    /\ bodyText = <<>>
    /\ scrapedText = NoText

TransferNext ==
    \/ downloadJson
    \/ \E content \in OtherFiles \cup {file} : handleFileUpload(content)

TransferSpec == TransferInit /\ [][TransferNext]_vars

(***************************************************************************)
(* parseSitemap as handleStart applies it, as a component of its own: the  *)
(* sitemap text is any of SitemapInputs, and a run that is started is not  *)
(* followed further.                                                       *)
(***************************************************************************)
\* <loc> elements: on one line, over several lines, padded, empty, blank,
\* with an entity reference, and with a namespace prefix
LocElements ==
    { <<StartTag("loc"), "u1", EndTag("loc")>>,
      <<StartTag("loc"), "\n", "u2", "\n", EndTag("loc")>>,
      <<StartTag("loc"), " ", "u2", EndTag("loc")>>,
      <<StartTag("loc"), EndTag("loc")>>,
      <<StartTag("loc"), " ", EndTag("loc")>>,
      <<StartTag("loc"), "u1", "&amp;", EndTag("loc")>>,
      <<StartTag("sm:loc"), "u1", EndTag("sm:loc")>> }

\* the sitemaps with up to MaxUrls of these elements, with and without the
\* XML declaration, behind nothing or a pasted header; and texts that are no
\* document
SitemapInputs ==
    LET Entry(loc) == <<StartTag("url")>> \o loc \o <<EndTag("url"), "\n">>
        Entries == {<<>>} \cup {Entry(loc) : loc \in LocElements}
                   \cup (IF MaxUrls < 2 THEN {}
                         ELSE {Entry(loc) \o Entry(other) : loc, other \in LocElements})
        Documents == {decl \o <<StartTag("urlset"), "\n">> \o entries \o <<EndTag("urlset")>> :
                         decl \in {<<>>, <<XmlDecl, "\n">>}, entries \in Entries}
    IN  {preamble \o document : preamble \in {<<>>, <<"text", " ", "text", "\n">>},
                                document \in Documents}
        \cup {<<>>, <<" ">>, <<"text">>, <<"\n", XmlDecl, "\n">>,
              <<StartTag("urlset"), StartTag("url")>>,
              <<StartTag("urlset"), EndTag("urlset"), "text">>,
              <<"text", StartTag("loc"), "u1", EndTag("loc"), " ",
                StartTag("loc"), "u2", EndTag("loc"), EndTag("url")>>}

ParseInit ==
    /\ provider = "gemini"
    /\ awsConfig = DefaultConfig
    /\ net = {"http"}
    /\ sitemapInput \in SitemapInputs
    /\ results \in PriorResults
    /\ queue = <<>>
    /\ appState = "IDLE"
    /\ progress = Fraction(0, 1)
    /\ notice = "none"
    /\ isRunning = FALSE
    /\ pc = "idle"
    /\ idx = 0
    /\ currentItems = <<>>
    /\ sessionProcessedCount = 0
    /\ strat = 0
    /\ timerArmed = FALSE
    /\ htmlContent = NoContent
    /\ errorDetails = <<>>
    /\ attempt = 0
    /\ delay = 0
    /\ error = NoGeminiError
    /\ runs = 0
    /\ attempted = <<>>
    /\ fetchLog = <<>>
    /\ classifyLog = <<>>
    /\ requestLog = 0
    /\ cancelled = FALSE
    /\ resultsAtStart = <<>>
    /\ lastContent = NotDelivered
    /\ NoResolution
    /\ elapsed = 0
    /\ eta = NoEta
    /\ paced = 0
    /\ file = <<>>
    /\ bodyText = <<>>
    /\ scrapedText = NoText

ParseNext == StartNothingToDo \/ StartAllDone \/ StartRun

ParseSpec == ParseInit /\ [][ParseNext]_vars


(***************************************************************************)
(* A session that is resumed: the sitemap has three urls, the saved        *)
(* results hold the pages of some of them, the provider is Gemini, and the *)
(* run is followed item by item to its end.                                *)
(***************************************************************************)
\* results restored from the saved session (lines 91-98) after earlier runs
\* in which some urls failed
SavedResults ==
    { <<>>, <<Page("u1", "t0")>>, <<Page("u3", "t0")>>,
      <<Page("u2", "t0"), Page("u3", "t0")>>,
      <<Page("u1", "t0"), Page("u3", "t0")>> }

ResumeInit ==
    /\ provider = "gemini"
    /\ awsConfig = DefaultConfig
    /\ net = {"http"}
    /\ sitemapInput = Sitemap(<<"u1", "u2", "u3">>)
    /\ results \in SavedResults
    /\ queue = <<>>
    /\ appState = "IDLE"
    /\ progress = Fraction(0, 1)
    /\ notice = "none"
    /\ isRunning = FALSE
    /\ pc = "idle"
    /\ idx = 0
    /\ currentItems = <<>>
    /\ sessionProcessedCount = 0
    /\ strat = 0
    /\ timerArmed = FALSE
    /\ htmlContent = NoContent
    /\ errorDetails = <<>>
    /\ attempt = 0
    /\ delay = 0
    /\ error = NoGeminiError
    /\ runs = 0
    /\ attempted = <<>>
    /\ fetchLog = <<>>
    /\ classifyLog = <<>>
    /\ requestLog = 0
    /\ cancelled = FALSE
    /\ resultsAtStart = <<>>
    /\ lastContent = NotDelivered
    /\ NoResolution
    /\ elapsed = 0
    /\ eta = NoEta
    /\ paced = 0
    /\ file = <<>>
    /\ bodyText = <<>>
    /\ scrapedText = NoText

ResumeNext ==
    \/ StartRun
    \/ LoopExit
    \/ LoopSkip
    \/ LoopStartItem
    \/ DelayElapsed
    \/ FetchRespondsOk
    \/ FetchRespondsError
    \/ \E content \in ContentLens : BodyArrives(content)
    \/ \E result \in ParsedResults : GeminiReturns(result)
    \/ \E e \in GeminiErrors : GeminiThrows(e)
    \/ Cancel

ResumeSpec == ResumeInit /\ [][ResumeNext]_vars


(***************************************************************************)
(* The text extraction of scrapeContent as a component of its own: the     *)
(* body text of the page is any of BodyTexts.                              *)
(***************************************************************************)
MaxTextRuns == 3    \* runs of equal characters in a body text

\* runs of a letter, of spaces and of line feeds, short and about as long
\* as the limit
TextRuns ==
    {Run(c, n) : c \in {"a", " ", "\n"},
                 n \in {1, 2, MaxTextLength - 1, MaxTextLength}}

BodyTexts == UNION {[1..n -> TextRuns] : n \in 0..MaxTextRuns}

ExtractInit ==
    /\ provider = "gemini"
    /\ awsConfig = DefaultConfig
    /\ net = {"http"}
    /\ sitemapInput = <<>>
    /\ results = <<>>
    /\ queue = <<>>
    /\ appState = "IDLE"
    /\ progress = Fraction(0, 1)
    /\ notice = "none"
    /\ isRunning = FALSE
    /\ pc = "idle"
    /\ idx = 0
    /\ currentItems = <<>>
    /\ sessionProcessedCount = 0
    /\ strat = 0
    /\ timerArmed = FALSE
    /\ htmlContent = NoContent
    /\ errorDetails = <<>>
    /\ attempt = 0
    /\ delay = 0
    /\ error = NoGeminiError
    /\ runs = 0
    /\ attempted = <<>>
    /\ fetchLog = <<>>
    /\ classifyLog = <<>>
    /\ requestLog = 0
    /\ cancelled = FALSE
    /\ resultsAtStart = <<>>
    /\ lastContent = NotDelivered
    /\ NoResolution
    /\ elapsed = 0
    /\ eta = NoEta
    /\ paced = 0
    /\ file = <<>>
    /\ bodyText \in BodyTexts
    /\ scrapedText = NoText

ExtractNext == scrapeContentReturns

ExtractSpec == ExtractInit /\ [][ExtractNext]_vars


(***************************************************************************)
(* Properties.                                                             *)
(***************************************************************************)
InFlight(item) == item.status \in {"scraping", "classifying"}
Settled(item) == item.status \in {"completed", "error"}
InLog(log, u) == \E j \in 1..Len(log) : log[j] = u

\* C1: every url that was in results when the run was started has a queue
\* item that is completed and carries a page of those results for that url,
\* in every state of the run, and the url was passed neither to
\* scrapeContent nor to a classification client in the run.
C1_ResumeSkips ==
    \A k \in 1..Len(queue) :
        HasResult(resultsAtStart, queue[k].url) =>
            /\ queue[k].status = "completed"
            /\ \E j \in 1..Len(resultsAtStart) :
                  /\ resultsAtStart[j] = queue[k].data
                  /\ resultsAtStart[j].url = queue[k].url
            /\ ~InLog(fetchLog, queue[k].url)
            /\ ~InLog(classifyLog, queue[k].url)

\* a run that resumed one url and processed another has ended
C1_Witness ==
    /\ pc = "idle" /\ appState = "COMPLETED"
    /\ \E k \in 1..Len(queue) : HasResult(resultsAtStart, queue[k].url)
    /\ \E k \in 1..Len(queue) :
          /\ ~HasResult(resultsAtStart, queue[k].url)
          /\ InLog(fetchLog, queue[k].url)
          /\ Settled(queue[k])

StatusSteps ==
    { <<"pending", "scraping">>, <<"scraping", "classifying">>,
      <<"classifying", "completed">>, <<"scraping", "error">>,
      <<"classifying", "error">> }

\* C2: within a run (the queue is not re-initialised by the step) an item's
\* status stays or changes by pending->scraping, scraping->classifying,
\* classifying->completed, scraping->error or classifying->error.
C2_ItemStateMachine ==
    [][ runs' = runs =>
          /\ Len(queue') = Len(queue)
          /\ \A k \in 1..Len(queue) :
                \/ queue'[k].status = queue[k].status
                \/ <<queue[k].status, queue'[k].status>> \in StatusSteps ]_vars

\* one item went all the way to completed in this run, another to error
C2_Witness ==
    /\ \E k \in 1..Len(queue) :
          /\ queue[k].status = "completed"
          /\ InLog(classifyLog, queue[k].url)
    /\ \E k \in 1..Len(queue) : queue[k].status = "error"

\* C3: at most one queue item is scraping or classifying.
C3_SingleWorker ==
    Cardinality({k \in 1..Len(queue) : InFlight(queue[k])}) <= 1

\* the second item is being classified after the first was settled
C3_Witness ==
    /\ Len(queue) >= 2
    /\ queue[2].status = "classifying"
    /\ Settled(queue[1])
    /\ InLog(fetchLog, queue[1].url)


InFetch == pc \in {"fetch", "body"}

\* C4: a step in which the item in flight fails sets it to error with the
\* failure as its message and leaves the run at the pacing delay, from where
\* the loop goes on; in a run whose calls all settle, every pending item is
\* eventually completed or error unless the run is cancelled, and the run
\* ends.
C4_FailureIsolation ==
    /\ [][ (pc # "idle" /\ idx \in 1..Len(queue) /\ InFlight(queue[idx])
              /\ ~InFlight(queue'[idx]) /\ queue'[idx].status # "completed")
           => /\ queue'[idx].status = "error"
              /\ queue'[idx].error # NoError
              /\ pc' = "delay" /\ idx' = idx /\ isRunning' = isRunning
              /\ appState' = "PROCESSING"
              /\ \A k \in 1..Len(queue) : k # idx => queue'[k] = queue[k] ]_vars
    /\ [][ pc = "delay" => pc' \in {"delay", "loop"} /\ idx' \in {idx, idx + 1} ]_vars
    /\ \A k \in 1..MaxUrls :
          (pc # "idle" /\ k <= Len(queue) /\ queue[k].status = "pending")
             ~> (cancelled \/ (k <= Len(queue) /\ Settled(queue[k])))
    /\ (appState = "PROCESSING") ~> (pc = "idle" /\ appState = "COMPLETED")

\* an uncancelled run has ended: its first item failed, its second completed
C4_Witness ==
    /\ pc = "idle" /\ ~cancelled /\ appState = "COMPLETED"
    /\ Len(queue) >= 2
    /\ queue[1].status = "error"
    /\ queue[2].status = "completed" /\ InLog(classifyLog, queue[2].url)

\* C5: an item is started only while the flag is set; once the flag was
\* cleared in a run no pending item leaves pending in that run; the run does
\* not end while an item is scraping or classifying, and that item is
\* eventually completed or error; in the run that is started next with the
\* same sitemap, every url the cancelled run left pending (no item of the
\* url was settled) is pending again.
C5_Cancellation ==
    /\ [][ \A k \in 1..Len(queue) :
             (runs' = runs /\ queue[k].status = "pending" /\ queue'[k].status # "pending")
                => isRunning /\ ~cancelled ]_vars
    /\ [](pc = "idle" => \A k \in 1..Len(queue) : ~InFlight(queue[k]))
    /\ \A k \in 1..MaxUrls :
          (cancelled /\ k <= Len(queue) /\ InFlight(queue[k]))
             ~> (k <= Len(queue) /\ Settled(queue[k]))
    /\ [][ (cancelled /\ ~cancelled')
           => \A k \in 1..Len(queue) :
                 ( /\ queue[k].status = "pending"
                   /\ \A j \in 1..Len(queue) :
                         queue[j].url = queue[k].url => ~Settled(queue[j]) )
                    => /\ k <= Len(queue')
                       /\ queue'[k].url = queue[k].url
                       /\ queue'[k].status = "pending" ]_vars

\* C6: with a Bedrock configuration whose credentials cannot be resolved
\* no queue item is ever scraping and no fetch is issued.
C6_CredentialsBeforeQueue ==
    (provider = "bedrock" /\ ResolveSteps[awsConfig] \in {"invalid", "missing"})
       => /\ fetchLog = <<>>
          /\ \A k \in 1..Len(queue) : queue[k].status # "scraping"

\* C7: while scrapeContent is in its loop the strategies attempted so far
\* are 1..strat in this order, each once; every strategy before the current
\* one has left its failure; no content has been accepted; and the step
\* that accepts content ends the loop.
C7_StrategyFallback ==
    /\ [](InFetch =>
            /\ strat \in 1..Len(Strategies)
            /\ attempted = [j \in 1..strat |-> j]
            /\ Len(errorDetails) = strat - 1
            /\ \A j \in 1..(strat - 1) : errorDetails[j].name = Strategies[j]
            /\ htmlContent = NoContent)
    /\ [][ (pc = "body" /\ lastContent' > MinContentLen) => ~InFetch' ]_vars

\* the last strategy is being attempted after the three before it failed
C7_Witness == pc = "fetch" /\ strat = Len(Strategies) /\ Len(errorDetails) = 3

Accepts ==
    /\ InFetch
    /\ \/ htmlContent' # NoContent
       \/ queue'[idx].status = "classifying"
       \/ queue'[idx].error.kind = "ParseFailed"

\* C8: content is accepted only in the step that delivers the body of a
\* success response, and only if its length is greater than 50; a body of
\* length <= 50 (or none) adds the strategy's failure and either the next
\* strategy is attempted or, after the last one, the call has failed.
C8_AcceptanceThreshold ==
    /\ [][ Accepts => pc = "body" /\ lastContent' > MinContentLen ]_vars
    /\ [][ (pc = "body" /\ lastContent' # NotDelivered /\ lastContent' <= MinContentLen)
           => LET details == Append(errorDetails, Detail(Strategies[strat], TooShort))
              IN  IF strat < Len(Strategies)
                  THEN pc' = "fetch" /\ strat' = strat + 1
                       /\ attempted' = Append(attempted, strat + 1)
                       /\ errorDetails' = details /\ htmlContent' = NoContent
                  ELSE queue'[idx].status = "error"
                       /\ queue'[idx].error = FetchFailed(details) ]_vars

\* a body of exactly 50 characters was refused and the next strategy begun
C8_Witness ==
    /\ pc = "fetch" /\ lastContent = MinContentLen
    /\ strat >= 2 /\ errorDetails[strat - 1].reason = TooShort

Reasons == {"HTTP status", "Timeout", TooShort, "exception message"}

\* C9: a call of scrapeContent that ends without accepted content ends with
\* FetchFailed; FetchFailed is raised only when all strategies have been
\* attempted; its details are one reason per strategy, in strategy order.
C9_Exhaustion ==
    /\ [][ (InFetch /\ ~InFetch' /\ ~(pc = "body" /\ lastContent' > MinContentLen))
           => queue'[idx].status = "error" /\ queue'[idx].error.kind = "FetchFailed" ]_vars
    /\ [][ (InFetch /\ queue'[idx].error.kind = "FetchFailed")
           => attempted = [j \in 1..Len(Strategies) |-> j] ]_vars
    /\ [](\A k \in 1..Len(queue) :
            queue[k].error.kind = "FetchFailed"
               => /\ queue[k].status = "error"
                  /\ Len(queue[k].error.details) = Len(Strategies)
                  /\ \A j \in 1..Len(Strategies) :
                        /\ queue[k].error.details[j].name = Strategies[j]
                        /\ queue[k].error.details[j].reason \in Reasons)

\* an item failed with FetchFailed
C9_Witness ==
    \E k \in 1..Len(queue) :
        queue[k].status = "error" /\ queue[k].error.kind = "FetchFailed"

\* C10: while an attempt is awaited, its response or its body, the timer
\* that aborts it is armed.
C10_TimerBoundsAttempt == InFetch => timerArmed


InGemini == pc \in {"gemini", "wait"}

\* the waits of the claim, in ms
Waits == <<5000, 10000, 20000, 40000, 80000>>

\* the error is a rate-limit condition: 429 as status or code, or a message
\* that says 429, RESOURCE_EXHAUSTED or quota
RateLimitCondition(e) == e.status = 429 \/ e.code = 429 \/ e.mentions

\* C11: in a call of classifyPageContent the requests issued are one more
\* than the retries done, at most 5 retries are done and so at most 6
\* requests issued; a wait is begun only on a rate-limit condition and the
\* waits are 5, 10, 20, 40, 80 s in this order; an error of the sixth
\* request ends the call with the item's error; and the call ends if every
\* request returns or throws.
C11_GeminiRetryPolicy ==
    /\ [](InGemini =>
            /\ attempt \in 0..MAX_RETRIES
            /\ requestLog = attempt + 1
            /\ requestLog <= 6)
    /\ [](pc = "wait" =>
            /\ attempt < MAX_RETRIES
            /\ delay = Waits[attempt + 1]
            /\ RateLimitCondition(error))
    /\ [][ (pc = "gemini" /\ pc' = "wait") => RateLimitCondition(error') ]_vars
    /\ [][ (pc = "gemini" /\ attempt = MAX_RETRIES /\ error' # NoGeminiError)
           => /\ pc' = "delay"
              /\ queue'[idx].status = "error"
              /\ queue'[idx].error.kind = error'.kind ]_vars
    /\ InGemini ~> ~InGemini

\* the fifth retry is awaited, with the wait of 80 s
C11_Witness == pc = "wait" /\ attempt = 4 /\ delay = 80000

\* C12: an error of a generation request that is no rate-limit condition
\* (an empty response, a network error, another API error) ends the call at
\* once with the item's error: no wait is begun, no further request issued.
C12_NoRetryOfOtherFailures ==
    [][ (pc = "gemini" /\ error' # NoGeminiError /\ error'.kind # "SyntaxError"
            /\ ~RateLimitCondition(error'))
        => /\ pc' = "delay"
           /\ requestLog' = 0 /\ attempt' = 0
           /\ queue'[idx].status = "error"
           /\ queue'[idx].error.kind = error'.kind ]_vars

\* an empty response, or a network error, has ended a call
C12_Witness ==
    /\ pc = "delay"
    /\ error.kind \in {"EmptyResponse", "TypeError"}
    /\ queue[idx].status = "error"

\* C13: when JSON.parse of the response text throws, the call ends without
\* another request to the backend, in classifyPageContent and in
\* classifyWithBedrock.
C13_MalformedJsonIsTerminal ==
    /\ [][ (pc = "gemini" /\ error'.kind = "SyntaxError")
           => pc' = "delay" /\ queue'[idx].status = "error" ]_vars
    /\ [][ (pc = "invoke" /\ pc' # "invoke")
           => pc' = "delay" /\ requestLog' = 0 ]_vars


InBedrock == pc \in {"bedrock", "exchange", "invoke"}

\* C14: a call of classifyWithBedrock issues at most one model-invocation
\* request: exactly one is outstanding while invokeBedrockWithIam is awaited,
\* none was issued before, and whatever that request throws (throttling,
\* model id, authentication, another service error) ends the call with the
\* item's error and without another request.
C14_BedrockNeverRetries ==
    /\ [](InBedrock => requestLog = (IF pc = "invoke" THEN 1 ELSE 0))
    /\ [](provider = "bedrock" => requestLog <= 1)
    /\ [][ (pc = "invoke" /\ queue'[idx] # queue[idx])
           => /\ pc' = "delay"
              /\ requestLog = 1
              /\ queue'[idx].status \in {"completed", "error"} ]_vars

\* a throttled request has ended the call with the item's error
C14_Witness ==
    /\ pc = "delay"
    /\ provider = "bedrock"
    /\ queue[idx].status = "error"
    /\ queue[idx].error.kind = "ThrottlingException"

\* C15: the page a classification client returns for an item carries the
\* url of that item, whatever members the backend's JSON object has.
C15_UrlIsTheCallers ==
    [][ (pc \in {"gemini", "invoke"} /\ queue'[idx].status = "completed")
        => queue'[idx].data.url = currentItems[idx].url ]_vars

\* C16: in a run no url is passed twice to scrapeContent, and none twice to
\* a classification client.
C16_OncePerUrl ==
    /\ \A j, k \in 1..Len(fetchLog) : fetchLog[j] = fetchLog[k] => j = k
    /\ \A j, k \in 1..Len(classifyLog) : classifyLog[j] = classifyLog[k] => j = k


\* the step in which a call resolves its credentials, or begins the exchange
Resolves == rpc = "resolve" /\ rpc' # "resolve"

ExchangeMode == ResolveSteps[awsConfig] = "exchange"

\* a credential is cached and the time is more than 5 minutes before its
\* expiration
FreshCache ==
    /\ cachedCreds # NoCachedCreds
    /\ ~cachedCreds.expiration.nan
    /\ cachedCreds.expiration.ms - now > 300000

\* C17: a resolution in exchange mode returns the cached credential, with
\* no request sent and the cache left as it is, exactly when a credential is
\* cached and the time is more than 5 minutes before its expiration;
\* otherwise it begins a fresh exchange (its first request is sent, unless
\* the key cannot be decoded), and the credential a fresh exchange returns
\* is the one the cache holds from then on.
C17_CredentialCache ==
    /\ [][ (Resolves /\ ExchangeMode)
           => ((/\ rpc' = "returned"
                /\ exchangeLog' = 0
                /\ credentials' = CredsOf(cachedCreds)
                /\ cachedCreds' = cachedCreds) <=> FreshCache) ]_vars
    /\ [][ (Resolves /\ ExchangeMode /\ ~FreshCache)
           => \/ rpc' = "strategy" /\ exchangeLog' = 1
              \/ rpc' = "thrown" /\ thrown' = "KeyDecodeFailed" /\ exchangeLog' = 0 ]_vars
    /\ [][ (rpc = "strategy" /\ rpc' = "returned")
           => /\ exchangeLog' >= 1
              /\ cachedCreds' # NoCachedCreds
              /\ credentials' = CredsOf(cachedCreds') ]_vars
    /\ [](rpc = "returned" /\ exchangeLog > 0 => credentials = CredsOf(cachedCreds))

\* the cached credential was returned in the last millisecond in which it is
\* more than 5 minutes from its expiration
C17_Witness ==
    /\ rpc = "returned"
    /\ ExchangeMode
    /\ exchangeLog = 0
    /\ ticks > 0
    /\ cachedCreds.expiration.ms - now = 300001
    /\ credentials = CredsOf(cachedCreds)

\* the configuration holds a literal credential string
LiteralMode ==
    /\ awsConfig.authType = "apikey"
    /\ Truthy(awsConfig.apiKey)
    /\ ~StartsWith(Trim(awsConfig.apiKey), KeyPrefix)

\* C18: a resolution of a literal credential string either returns a
\* credential whose access key has at least 16 characters and whose secret
\* has more than 10, or throws InvalidCredentialFormat.
C18_LiteralLengths ==
    [][ (Resolves /\ LiteralMode)
        => \/ /\ rpc' = "returned"
              /\ Len(credentials'.accessKeyId) >= 16
              /\ Len(credentials'.secretAccessKey) > 10
           \/ /\ rpc' = "thrown"
              /\ thrown' = "InvalidCredentialFormat" ]_vars

\* C19: a resolution in standard mode returns the trimmed keys when both
\* are non-empty after trimming and throws MissingCredentials otherwise; the
\* credential it hands to the backend call has no empty key.
C19_StandardKeysNonEmpty ==
    [][ (Resolves /\ awsConfig.authType = "standard")
        => IF Trim(awsConfig.accessKeyId) # <<>> /\ Trim(awsConfig.secretAccessKey) # <<>>
           THEN /\ rpc' = "returned"
                /\ credentials'.accessKeyId = Trim(awsConfig.accessKeyId)
                /\ credentials'.secretAccessKey = Trim(awsConfig.secretAccessKey)
           ELSE /\ rpc' = "thrown"
                /\ thrown' = "MissingCredentials" ]_vars

\* the parts of a colon-delimited text
KeyPart(text) == Split(text, ":")[1]
SecretPart(text) == Split(text, ":")[2]
TokenPart(text) ==
    IF Len(Split(text, ":")) = 2 THEN Undefined
    ELSE SubSeq(text, Len(KeyPart(text)) + Len(SecretPart(text)) + 3, Len(text))

IsColonDelimited(text) == Len(Split(text, ":")) >= 2

\* the text is a JSON object with the members accessKeyId and secretAccessKey
IsJsonCredentials(text) ==
    /\ StartsWith(Trim(text), <<"{">>)
    /\ JsonParseObject(Trim(text)) # JsonFail
    /\ Truthy(JsonField(JsonParseObject(Trim(text)), AccessKeyIdName))
    /\ Truthy(JsonField(JsonParseObject(Trim(text)), SecretAccessKeyName))

\* C20 as stated: for 'K:S' and 'K:S:T...' with K of at least 16 characters
\* and S of more than 10, the resolution returns accessKeyId = K,
\* secretAccessKey = S and, as sessionToken, everything after the second
\* colon (none for 'K:S').
C20_RawColonLiteral ==
    [][ (/\ Resolves
         /\ awsConfig.authType = "apikey"
         /\ IsColonDelimited(awsConfig.apiKey)
         /\ Len(KeyPart(awsConfig.apiKey)) >= 16
         /\ Len(SecretPart(awsConfig.apiKey)) > 10)
        => /\ rpc' = "returned"
           /\ credentials'.accessKeyId = KeyPart(awsConfig.apiKey)
           /\ credentials'.secretAccessKey = SecretPart(awsConfig.apiKey)
           /\ credentials'.sessionToken = TokenPart(awsConfig.apiKey) ]_vars

TrimmedToken(text) ==
    IF TokenPart(text) = Undefined THEN Undefined ELSE Trim(TokenPart(text))

\* C20, amended: for 'K:S' and 'K:S:T...' that does not begin with the
\* exchange prefix and is not a JSON object with both key members, where K
\* without its surrounding white space has at least 16 characters and S
\* without its surrounding white space more than 10, the resolution returns
\* accessKeyId = K and secretAccessKey = S without that white space and, as
\* sessionToken, everything after the second colon without its surrounding
\* white space (none for 'K:S').
C20_RawColonLiteralTrimmed ==
    [][ (/\ Resolves
         /\ LiteralMode
         /\ IsColonDelimited(awsConfig.apiKey)
         /\ ~IsJsonCredentials(awsConfig.apiKey)
         /\ Len(Trim(KeyPart(awsConfig.apiKey))) >= 16
         /\ Len(Trim(SecretPart(awsConfig.apiKey))) > 10)
        => /\ rpc' = "returned"
           /\ credentials'.accessKeyId = Trim(KeyPart(awsConfig.apiKey))
           /\ credentials'.secretAccessKey = Trim(SecretPart(awsConfig.apiKey))
           /\ credentials'.sessionToken = TrimmedToken(awsConfig.apiKey) ]_vars

\* 'K :S:t:u' was resolved: the key without the blank, the token with its colon
C20_Witness ==
    /\ rpc = "returned"
    /\ awsConfig.apiKey = RawLiteralWithToken(Key16 \o Blank, Secret11, ColonToken)
    /\ credentials = Creds(Key16, Secret11, ColonToken)

\* the text is colon-delimited with an access key of at least 16 characters
\* and a secret of more than 10
HasLongParts(text) ==
    /\ IsColonDelimited(text)
    /\ Len(Trim(KeyPart(text))) >= 16
    /\ Len(Trim(SecretPart(text))) > 10

\* what the text is the base64 of (nothing when it is no base64)
Base64Decoded(text) ==
    IF IsBase64Text(text) /\ ~AtobThrows(text) THEN Atob(text) ELSE <<>>

\* the literal has none of the three formats
FailsLiteralFormats(text) ==
    /\ ~IsJsonCredentials(text)
    /\ ~HasLongParts(Base64Decoded(Trim(text)))
    /\ ~HasLongParts(Trim(text))

\* C21: a resolution of a literal credential string that is no JSON object
\* with both keys, no base64 of a colon-delimited text with long-enough
\* parts and no such colon-delimited text itself throws
\* InvalidCredentialFormat: no credential is handed on, so the call never
\* gets to its model invocation, and no request was sent by it.
C21_BadLiteralIsRejected ==
    [][ (Resolves /\ LiteralMode /\ FailsLiteralFormats(awsConfig.apiKey))
        => /\ rpc' = "thrown"
           /\ thrown' = "InvalidCredentialFormat"
           /\ credentials' = NoCreds
           /\ exchangeLog' = 0 ]_vars

\* the base64 of a 15-character key and a secret was rejected
C21_Witness ==
    /\ rpc = "thrown"
    /\ thrown = "InvalidCredentialFormat"
    /\ awsConfig.authType = "apikey"
    /\ awsConfig.apiKey = Btoa(RawLiteral(SubSeq(Key16, 1, 15), Secret11))
    /\ credentials = NoCreds

\* the member is absent from the body, or empty, under both of its names
Lacks(body, capital, camel) ==
    \/ body.null
    \/ /\ body[capital] \in {Undefined, <<>>}
       /\ body[camel] \in {Undefined, <<>>}

LacksCredentialField(body) ==
    \/ Lacks(body, "AccessKeyId", "accessKeyId")
    \/ Lacks(body, "SecretAccessKey", "secretAccessKey")
    \/ Lacks(body, "SessionToken", "sessionToken")

\* C22: when the JSON that the exchange endpoint returned lacks the access
\* key, the secret key or the session token under both of its names, the
\* resolution throws KeyExchangeInvalid: no credential is returned or
\* cached, so the call never gets to its model invocation.
C22_MissingFieldIsInvalid ==
    [][ \A body \in ResponseBodies :
           (StrategyReturns(body) /\ LacksCredentialField(body))
           => /\ rpc' = "thrown"
              /\ thrown' = "KeyExchangeInvalid"
              /\ credentials' = NoCreds
              /\ cachedCreds' = cachedCreds ]_vars

\* the items of q that are not pending
NotPending(q) == Cardinality({k \in 1..Len(q) : q[k].status # "pending"})

\* a step of handleStart or processQueue that reports a progress value
ReportsProgress ==
    \/ runs' = runs + 1
    \/ sessionProcessedCount' = sessionProcessedCount + 1

\* C23: every progress value reported in a run is
\* 100 * (queue items that are not pending) / (queue items).
C23_ProgressFormula ==
    [][ ReportsProgress
        => progress'.num * Len(queue') = NotPending(queue') * progress'.den ]_vars

\* C24: whenever the progress value is 100%, every queue item is completed
\* or in error: none is pending, scraping or classifying.
C24_FullProgressMeansSettled ==
    (progress.num = progress.den) => \A k \in 1..Len(queue) : Settled(queue[k])

\* 100% was reported after the last of two items, one of which failed
C24_Witness ==
    /\ progress.num = progress.den
    /\ pc = "delay"
    /\ Len(queue) = 2
    /\ \E k \in 1..2 : queue[k].status = "error"

\* the items of q that are neither completed nor in error
Unresolved(q) == Cardinality({k \in 1..Len(q) : ~Settled(q[k])})

\* the seconds that an estimate of `eta` stands for
EtaSeconds(e) == 60 * e.minutes + e.seconds

\* n / d rounded up
Ceiling(n, d) == (n + d - 1) \div d

QueueFor(res) == InitialQueue([k \in 1..Len(res) |-> res[k].url], res)

\* C26: importing the file that downloadJson wrote for the present results
\* is accepted and leaves results with the same pages, so that a run over
\* their urls initialises every item as completed with the page's data.
C26_ExportImportRoundTrip ==
    [][ (/\ file = <<Punct("[")>> \o Stringify(results) \o <<Punct("]")>>
         /\ handleFileUpload(file))
        => /\ notice' = "Successfully loaded"
           /\ results' = results
           /\ \A k \in 1..Len(results) :
                 QueueFor(results')[k]
                     = Item(results[k].url, "completed", results[k], NoError) ]_vars

\* the content is a JSON array whose elements all are objects with a
\* non-empty url, a non-empty title and a tags member
IsCollection(content) ==
    /\ JSONparse(content).ok
    /\ JSONparse(content).isArray
    /\ \A k \in 1..Len(JSONparse(content).items) :
          LET item == JSONparse(content).items[k]
          IN  /\ ~item.null
              /\ item.page.url \notin {Absent, ""}
              /\ item.page.title \notin {Absent, ""}
              /\ item.page.tags # Absent

\* C27: a file is accepted (its elements, all of them, become the results)
\* only if it is a JSON array whose elements all have a non-empty url, a
\* non-empty title and a tags member; for every other file the import is
\* rejected with a message and results stay as they were.
C27_ImportAllOrNothing ==
    [][ \A content \in OtherFiles \cup {file} :
           handleFileUpload(content)
           => /\ (notice' = "Successfully loaded" \/ results' # results)
                 => /\ IsCollection(content)
                    /\ Len(results') = Len(JSONparse(content).items)
              /\ ~IsCollection(content)
                 => /\ results' = results
                    /\ notice' \in {"Failed to parse JSON file.",
                                    "Invalid JSON format. Expected an array.",
                                    "Invalid JSON format. Expected an array of ClassifiedPage objects."}
      ]_vars

\* a file other than the export of the two present pages was rejected
C27_Witness ==
    /\ notice = "Invalid JSON format. Expected an array of ClassifiedPage objects."
    /\ Len(results) = 2
    /\ file = <<Punct("[")>> \o Stringify(results) \o <<Punct("]")>>
    /\ IsCollection(file)

\* the text has no markup: a header pasted in front of a document
IsPreamble(text) == \A k \in 1..Len(text) : text[k] = "text" \/ IsSpace(text[k])

\* the urls of a queue
UrlsOf(q) == [k \in 1..Len(q) |-> q[k].url]

\* C28: for a text that is a preamble without markup followed by a
\* well-formed document with <loc> elements, handleStart queues exactly
\* the trimmed text content of every <loc> element of that document: one
\* item per element, in document order.
C28_ParsesValidXml ==
    [][ \A k \in 0..Len(sitemapInput) :
           LET document == SubSeq(sitemapInput, k + 1, Len(sitemapInput))
               locs == xmlDoc(document).locs
           IN  (/\ runs' = runs + 1
                /\ IsPreamble(SubSeq(sitemapInput, 1, k))
                /\ xmlDoc(document).ok
                /\ Len(locs) > 0)
               => UrlsOf(queue') = [j \in 1..Len(locs) |-> Concat(Trim(locs[j].text))] ]_vars

\* the contents of the `<loc>...</loc>` substrings of the text that have a
\* content, trimmed, in the order of their appearance
RECURSIVE LocSubstrings(_)
LocSubstrings(toks) ==
    LET ends == {k \in 2..Len(toks) : toks[k] = "</loc>"}
        end == CHOOSE k \in ends : \A j \in ends : k <= j
    IN  IF toks = <<>> THEN <<>>
        ELSE IF Head(toks) = "<loc>" /\ ends # {}
        THEN (IF end > 2 THEN <<Concat(Trim(SubSeq(toks, 2, end - 1)))>> ELSE <<>>)
             \o LocSubstrings(SubSeq(toks, end + 1, Len(toks)))
        ELSE LocSubstrings(Tail(toks))

\* structured parsing found no <loc> element
NoStructuredLocs(text) == Len(xmlDoc(cleanContent(text)).locs) = 0

\* C29: when structured parsing finds no location and the text has
\* `<loc>...</loc>` substrings, parseSitemap returns the trimmed contents
\* of those substrings in the order of their appearance; when structured
\* parsing finds locations, the result is theirs, whatever the raw text.
C29_FallbackExtraction ==
    /\ (NoStructuredLocs(sitemapInput) /\ LocSubstrings(sitemapInput) # <<>>)
       => parseSitemap(sitemapInput) = LocSubstrings(sitemapInput)
    /\ ~NoStructuredLocs(sitemapInput)
       => LET locs == SelectSeq(xmlDoc(cleanContent(sitemapInput)).locs, hasText)
          IN  parseSitemap(sitemapInput) = [j \in 1..Len(locs) |-> Concat(Trim(locs[j].text))]

\* the text has a `<loc>` tag with something between it and a later `</loc>`
HasLocContent(text) ==
    \E i, j \in 1..Len(text) : text[i] = "<loc>" /\ text[j] = "</loc>" /\ j > i + 1

\* C30: parseSitemap returns the empty sequence for the empty text and for
\* every text without <loc> content; and while it returns the empty
\* sequence for the sitemap text no run is started: the queue has no item,
\* nothing is fetched and nothing is classified.
C30_EmptySitemap ==
    /\ ~HasLocContent(sitemapInput) => parseSitemap(sitemapInput) = <<>>
    /\ parseSitemap(sitemapInput) = <<>>
       => /\ queue = <<>>
          /\ pc = "idle"
          /\ appState = "IDLE"
          /\ fetchLog = <<>>
          /\ classifyLog = <<>>
          /\ requestLog = 0

\* handleStart was called for a sitemap whose only <loc> element is empty
C30_Witness ==
    /\ sitemapInput = <<"<urlset>", "<loc>", "</loc>", "</urlset>">>
    /\ runs = 1
    /\ notice = "noUrls"
    /\ queue = <<>>


\* the body delivered in this step was accepted (line 93) and the call did
\* not return the text: reading the content as markup failed
InterpretationFails ==
    /\ pc = "body"
    /\ lastContent' > MinContentLen
    /\ queue'[idx].status # "classifying"

\* C31: when content was accepted and reading it as markup fails, the item
\* is set to error with ParseFailed, which is not FetchFailed; the call has
\* ended, no strategy is attempted after the one that delivered the content
\* and no new fetch is issued in that step; an item carries ParseFailed only
\* from such a step.
C31_ParseFailed ==
    /\ [][ InterpretationFails
           => /\ queue'[idx].status = "error"
              /\ queue'[idx].error = ParseFailed
              /\ queue'[idx].error.kind # "FetchFailed"
              /\ ~InFetch' /\ pc' = "delay"
              /\ strat' = 0 /\ attempted' = <<>>
              /\ fetchLog' = fetchLog ]_vars
    /\ [][ \A k \in 1..Len(queue) :
             (runs' = runs /\ queue'[k].error.kind = "ParseFailed"
                /\ queue[k].error.kind # "ParseFailed")
                => k = idx /\ InterpretationFails ]_vars

\* content was accepted and could not be read: the item failed with ParseFailed
C31_Witness ==
    /\ pc = "delay"
    /\ queue[idx].status = "error" /\ queue[idx].error = ParseFailed
    /\ lastContent > MinContentLen


\* every item before position j is completed or error
EarlierSettled(q, j) == \A i \in 1..(j - 1) : Settled(q[i])

\* C32: within a run an item becomes scraping only when every item before
\* it in the queue is completed or error, and while an item is scraping or
\* classifying no item before it is pending, scraping or classifying.
C32_ProcessingOrder ==
    /\ [][ \A j \in 1..Len(queue) :
             (runs' = runs /\ queue[j].status # "scraping"
                /\ queue'[j].status = "scraping")
                => EarlierSettled(queue, j) /\ EarlierSettled(queue', j) ]_vars
    /\ [](\A j \in 1..Len(queue) : InFlight(queue[j]) => EarlierSettled(queue, j))

\* the second item is being fetched after the first one failed
C32_Witness ==
    /\ Len(queue) >= 2
    /\ pc = "fetch"
    /\ queue[2].status = "scraping"
    /\ queue[1].status = "error"


\* the item in flight is settled by this step: its processing ends
ItemEnds == idx \in 1..Len(queue) /\ InFlight(queue[idx]) /\ Settled(queue'[idx])

\* the fetch of an item is started by this step of the run
FetchStarts == runs' = runs /\ Len(fetchLog') = Len(fetchLog) + 1

\* C33: the step that ends an item's processing, with success or with
\* error, begins the pacing delay; the delay is left only by its timer, after
\* 500 ms with Bedrock and 2000 ms with Gemini; and the fetch of an item is
\* started after another item was processed in the run only when that delay
\* has passed in full since the earlier item ended.
C33_Pacing ==
    /\ [][ ItemEnds => pc' = "delay" /\ paced' = 0 ]_vars
    /\ [][ (pc = "delay" /\ pc' # "delay")
           => /\ pc' = "loop"
              /\ paced' = (IF provider = "bedrock" THEN 500 ELSE 2000) ]_vars
    /\ [][ (FetchStarts /\ sessionProcessedCount > 0)
           => /\ pc = "loop"
              /\ paced = (IF provider = "bedrock" THEN 500 ELSE 2000) ]_vars
    /\ [](pc \in {"fetch", "body", "gemini", "wait", "bedrock", "exchange", "invoke"}
            => (sessionProcessedCount > 0
                  => paced = (IF provider = "bedrock" THEN 500 ELSE 2000)))

\* with Bedrock the second item is being fetched after the first one failed
C33_Witness ==
    /\ provider = "bedrock"
    /\ pc = "fetch" /\ idx = 2
    /\ queue[1].status = "error" /\ InLog(fetchLog, queue[1].url)
    /\ paced = 500


\* the credential the endpoint named by the key issues, as
\* invokeBedrockWithIam reads it
IssuedFor(apiKey) ==
    LET url == DecodedUrl(sanitize(apiKey))
    IN  Creds(Issued("A", url), Issued("S", url), Issued("T", url))

\* C34: a resolution with an exchange key that returns a credential returns
\* the credential issued by the endpoint that key names.
C34_CredentialOfTheKey ==
    [][ (rpc # "returned" /\ rpc' = "returned" /\ ExchangeMode)
        => /\ ~DecodeThrows(sanitize(awsConfig.apiKey))
           /\ credentials' = IssuedFor(awsConfig.apiKey) ]_vars


\* the call fails in this step
CallThrows == rpc # "thrown" /\ rpc' = "thrown"

\* C35: the step in which a resolution fails (the key cannot be decoded,
\* the last strategy has failed, the response lacks a credential field)
\* leaves the cache as it is, and so does every step of a call before it;
\* the cache changes only in the step in which an exchange returns, to the
\* credential that step returns, whose three fields are non-empty.
C35_FailedExchangeKeepsCache ==
    /\ [][ CallThrows => cachedCreds' = cachedCreds ]_vars
    /\ [][ cachedCreds' # cachedCreds
           => /\ rpc = "strategy" /\ rpc' = "returned"
              /\ exchangeLog' >= 1
              /\ credentials' = CredsOf(cachedCreds')
              /\ Truthy(cachedCreds'.accessKeyId)
              /\ Truthy(cachedCreds'.secretAccessKey)
              /\ Truthy(cachedCreds'.sessionToken) ]_vars

\* an exchange has failed on its response while an older credential, no
\* longer fresh, is in the cache
C35_Witness ==
    /\ rpc = "thrown" /\ thrown = "KeyExchangeInvalid"
    /\ cachedCreds # NoCachedCreds
    /\ exchangeLog >= 1


\* res begins with the records of old, in their order
Extends(res, old) == Len(res) >= Len(old) /\ SubSeq(res, 1, Len(old)) = old

DistinctUrls(res) == \A j, k \in 1..Len(res) : res[j].url = res[k].url => j = k

\* C36: every step leaves the records of results in place and adds at most
\* one record at the end; a record is added only in the step that completes
\* the item in flight, it is that item's data, and its url was not in
\* results; the step that sets an item to error leaves results as they are.
\* So results always begin with the results the run started with, and their
\* urls stay pairwise distinct.
C36_RunOnlyAppends ==
    /\ [][ /\ Extends(results', results)
           /\ Len(results') <= Len(results) + 1
           /\ results' # results
                => /\ pc # "idle" /\ idx \in 1..Len(queue)
                   /\ InFlight(queue[idx])
                   /\ queue'[idx].status = "completed"
                   /\ results'[Len(results')] = queue'[idx].data
                   /\ ~HasResult(results, queue'[idx].data.url) ]_vars
    /\ [][ \A k \in 1..Len(queue) :
             (runs' = runs /\ queue[k].status # "error" /\ queue'[k].status = "error")
                => results' = results ]_vars
    /\ [](Extends(results, resultsAtStart) /\ DistinctUrls(results))

\* an item was completed with a page whose url the results of the run's
\* start held already: nothing was added
C36_Witness ==
    /\ pc = "delay"
    /\ queue[idx].status = "completed"
    /\ resultsAtStart # <<>>
    /\ HasResult(resultsAtStart, queue[idx].data.url)
    /\ ~HasResult(resultsAtStart, queue[idx].url)
    /\ results = resultsAtStart


\* the fraction a is at most the fraction b
AtMost(a, b) == a.num * b.den <= b.num * a.den

\* C37: within a run (the step does not start one) the progress reported
\* after the step is not less than the progress before it.
C37_ProgressNeverDecreases ==
    [][ runs' = runs => AtMost(progress, progress') ]_vars


\* C38: no url that handleStart took from parseSitemap into the queue is
\* the empty string.
C38_NoEmptyUrl ==
    \A k \in 1..Len(queue) : queue[k].url # ""


\* no white space at either end, and no two white-space characters in a row
IsNormalised(s) ==
    /\ s # <<>> => ~IsSpace(s[1].char) /\ ~IsSpace(s[Len(s)].char)
    /\ \A k \in 1..Len(s) :
          IsSpace(s[k].char) =>
              /\ s[k].len = 1
              /\ k < Len(s) => ~IsSpace(s[k + 1].char)

\* C39: the text scrapeContent returns has at most 30,000 characters, no
\* white space at its ends and no two adjacent white-space characters.
C39_ReturnedText ==
    scrapedText # NoText => length(scrapedText) <= 30000 /\ IsNormalised(scrapedText)

====
